---- MODULE Spec2Model ----
(***************************************************************************)
(* The Bitmessage object codecs of lib/objects.js (getpubkey, pubkey, msg, *)
(* broadcast) as a state machine.  One encode call and one decode call are *)
(* followed through their asynchronous stages; the collaborators (structs, *)
(* crypto, address, pow) are modelled by what the codecs rely on.          *)
(*                                                                         *)
(* Buffers are sequences of typed parts (a var_int, a key block, a ripe,   *)
(* a tag, a message, a signature, an ECIES blob); Buffer.concat is \o and  *)
(* a buffer's length is the sum of its parts' lengths.                     *)
(***************************************************************************)
EXTENDS Integers, Sequences, FiniteSets, TLC

\* ------------------------------------------------------------- bounds

\* Longest candidate sequence (needed / identities / subscriptions).
MaxCands == 2

\* --------------------------------------------------- program constants

MaxObjectLength == 262136
NonceLength == 8
RipeLength == 20
TagLength == 32
PubkeyLength == 132
PubkeyV3MinLength == 135
GETPUBKEY == 0
PUBKEY == 1
MSG == 2
BROADCAST == 3
IGNORE == 0
TRIVIAL == 1
SIMPLE == 2
DEFAULT_ENCODING == TRIVIAL

\* -------------------------------------------------------- primitives

\* var_int: 1, 3, 5 or 9 octets, minimal encoding (the model's integers stay
\* below 2^31, so the 9-octet form is never needed).
VarIntLen(n) == IF n < 253 THEN 1 ELSE IF n < 65536 THEN 3 ELSE 5

\* JavaScript values the options and the decoded structures hold: a string
\* (its characters as code points), or undefined.
Str(chars) == [k |-> "string", chars |-> chars]
Undefined == [k |-> "undefined"]

\* new Buffer(str, "utf8") on the characters the model uses (below U+0800):
\* one octet for an ASCII character, two otherwise.
RECURSIVE Utf8Encode(_)
Utf8Encode(chars) ==
  IF chars = <<>> THEN <<>>
  ELSE (IF chars[1] < 128 THEN <<chars[1]>>
        ELSE <<192 + (chars[1] \div 64), 128 + (chars[1] % 64)>>)
         \o Utf8Encode(Tail(chars))

\* Buffer.prototype.toString("utf8") on the octets the model uses (ASCII,
\* two-octet sequences and lone continuation octets 0x80..0xBF): an octet
\* that is not valid UTF-8 is replaced by U+FFFD.  This is also the coercion
\* behind addrs[tag].
RECURSIVE Utf8ToString(_)
Utf8ToString(octets) ==
  IF octets = <<>> THEN <<>>
  ELSE IF octets[1] < 128 THEN <<octets[1]>> \o Utf8ToString(Tail(octets))
  ELSE IF /\ octets[1] \in 194..223 /\ Len(octets) >= 2
          /\ octets[2] \in 128..191
  THEN <<64 * (octets[1] - 192) + (octets[2] - 128)>>
         \o Utf8ToString(SubSeq(octets, 3, Len(octets)))
  ELSE <<65533>> \o Utf8ToString(Tail(octets))

\* String.prototype.slice(from, to) and indexOf(pattern), positions from 0.
slice(s, from, to) ==
  IF from >= Len(s) THEN <<>> ELSE SubSeq(s, from + 1, IF to > Len(s) THEN Len(s) ELSE to)
indexOf(s, pattern) ==
  LET hits == {i \in 0..(Len(s) - Len(pattern)) :
                 SubSeq(s, i + 1, i + Len(pattern)) = pattern}
  IN IF hits = {} THEN -1 ELSE CHOOSE i \in hits : \A j \in hits : i <= j

\* ------------------------------------------------------------ Address

\* The addresses the calls are made with.  AddrC shares its encryption key
\* with AddrB but not its signing key (so not its ripe); AddrE has AddrD's
\* keys on another stream (the same ripe, another tag).
AddrA == [version |-> 2, stream |-> 1, signKey |-> 1, encKey |-> 1]
AddrB == [version |-> 3, stream |-> 1, signKey |-> 2, encKey |-> 2]
AddrC == [version |-> 3, stream |-> 1, signKey |-> 1, encKey |-> 2]
AddrD == [version |-> 4, stream |-> 1, signKey |-> 3, encKey |-> 3]
AddrE == [version |-> 4, stream |-> 2, signKey |-> 3, encKey |-> 3]
Addrs == {AddrA, AddrB, AddrC, AddrD, AddrE}

\* RIPEMD-160 of the two public keys, as the pair it is computed from.
ripe(a) == [k |-> "ripe", sign |-> a.signKey, enc |-> a.encKey]
GarbageRipe == [k |-> "ripe", sign |-> 0, enc |-> 0]

\* Address.getTag: 32 octets derived from (version, stream, ripe).
getTag(a) ==
  <<128 + a.version, 64 + a.stream, 64 + a.signKey, 64 + a.encKey>>
    \o [i \in 1..(TagLength - 4) |-> 0]
\* The first 32 octets of a payload that does not start with a tag.
GarbageTag == [i \in 1..TagLength |-> 1]

\* The object built by new Address({version, stream, signPublicKey, encPublicKey}).
NewAddress(v, s, sk, ek) == [version |-> v, stream |-> s, signKey |-> sk, encKey |-> ek]

signPrivateKey(a) == [k |-> "sign", id |-> a.signKey]
encPrivateKey(a) == [k |-> "enc", id |-> a.encKey]
encPublicKey(a) == encPrivateKey(a)
getPubkeyPrivateKey(a) == [k |-> "pubkeyKey", tag |-> getTag(a)]
getPubkeyPublicKey(a) == getPubkeyPrivateKey(a)
getBroadcastPrivateKey(a) ==
  [k |-> "broadcastKey", version |-> a.version, stream |-> a.stream, ripe |-> ripe(a)]
getBroadcastPublicKey(a) == getBroadcastPrivateKey(a)

\* util.getTrials / util.getExtraBytes: the address's difficulty or the default.
getTrials(a) == 1000
getExtraBytes(a) == 1000

\* ------------------------------------------------------ buffer parts

VI(n) == [k |-> "varint", value |-> n]
KeysPart(a) == [k |-> "keys", behavior |-> 1, sign |-> a.signKey, enc |-> a.encKey]
RipePart(r) == [k |-> "ripe20", ripe |-> r]
TagPart(t) == [k |-> "tag32", tag |-> t]
BytesPart(n, t) == [k |-> "bytes", len |-> n, text |-> t]
SigPart(sig) == [k |-> "sigbytes", sig |-> sig]

RECURSIVE BufLen(_)
\* ECIES blob: IV(16), curve(2), two length-prefixed coordinates (2+32 each),
\* the AES-CBC ciphertext (padded to 16) and a 32-octet MAC.
EciesLen(clear) == 118 + 16 * ((BufLen(clear) \div 16) + 1)
PartLen(p) ==
  CASE p.k = "varint" -> VarIntLen(p.value)
    [] p.k = "keys" -> PubkeyLength
    [] p.k = "ripe20" -> RipeLength
    [] p.k = "tag32" -> TagLength
    [] p.k = "bytes" -> p.len
    [] p.k = "sigbytes" -> 71
    [] p.k = "ecies" -> EciesLen(p.clear)
BufLen(b) == IF b = <<>> THEN 0 ELSE PartLen(Head(b)) + BufLen(Tail(b))

\* ------------------------------------------------------------- crypto

\* bmcrypto.sign resolves to a signature of data under the private key.
sign(priv, data) == [k |-> "sig", by |-> priv.id, data |-> data]
GarbageSig == [k |-> "nosig"]
\* bmcrypto.verify(pub, data, sig) is fulfilled iff sig signs data under pub.
verify(pub, data, sig) == sig.k = "sig" /\ sig.by = pub /\ sig.data = data
\* bmcrypto.encrypt resolves to an ECIES blob for the holder of the key.
encrypt(pub, data) == [k |-> "ecies", key |-> pub, clear |-> data]
\* bmcrypto.decrypt(priv, buf) is fulfilled iff buf is a blob made for priv.
canDecrypt(priv, buf) == Len(buf) = 1 /\ buf[1].k = "ecies" /\ buf[1].key = priv
decrypt(priv, buf) == buf[1].clear

\* ------------------------------------------------------------ structs

\* object.encodePayloadWithoutNonce: expiresTime, type, version, stream, payload.
encodePayloadWithoutNonce(opts) ==
  [expires |-> opts.ttl, type |-> opts.type, version |-> opts.version,
   stream |-> opts.stream, payload |-> opts.objectPayload]
ObjLen(obj) ==
  8 + 4 + VarIntLen(obj.version) + VarIntLen(obj.stream) + BufLen(obj.payload)
\* The object header without nonce, as the octets [from, to) of the message
\* payload; the header ends at HeaderEnd.
HeaderEnd(obj) == NonceLength + 8 + 4 + VarIntLen(obj.version) + VarIntLen(obj.stream)
HeaderSlice(obj, from, to) ==
  [k |-> "header", expires |-> obj.expires, type |-> obj.type,
   version |-> obj.version, stream |-> obj.stream, from |-> from, to |-> to]
ObjHeader(obj) == HeaderSlice(obj, NonceLength, HeaderEnd(obj))
\* object.decodePayload: the parsed header, headerLength and objectPayload.
decodePayload(buf) ==
  [nonce |-> buf.nonce, expires |-> buf.expires, type |-> buf.type,
   version |-> buf.version, stream |-> buf.stream,
   headerLength |-> HeaderEnd(buf), objectPayload |-> buf.payload]
\* message.encode(command, payload) and message.decode.
messageEncode(command, payload) == [k |-> "message", command |-> command, payload |-> payload]

\* -------------------------------------------------------------- state

VARIABLES
  enc,       \* the encode call in progress: its stage and its locals
  encFut,    \* the future the public encode operation returned
  nonceFut,  \* the promise prependNonce returned
  pow,       \* what the POW module was asked: getTarget and doAsync calls
  log,       \* the stages of the calls, in the order they happened
  wire,      \* the value handed to the decoder, and the value it was made from
  dec,       \* the decode call in progress: its stage and its locals
  decFut,    \* the future the public decode operation returned
  msgCall    \* a call of encodeMessage, then of decodeMessage on its result

vars == <<enc, encFut, nonceFut, pow, log, wire, dec, decFut, msgCall>>
encVars == <<enc, encFut, nonceFut, pow>>
decVars == <<dec, decFut>>

Pending == [state |-> "pending", error |-> "", value |-> <<>>]
Fulfilled(v) == [state |-> "fulfilled", error |-> "", value |-> <<v>>]
Rejected(e) == [state |-> "rejected", error |-> e, value |-> <<>>]

Kinds == {"getpubkey", "pubkey", "msg", "broadcast"}
Apis == {"encodeAsync", "encodePayloadAsync"}
\* The nonces POW.doAsync resolves to.
PowNonces == {5, 70000}
\* opts.message: the string "hello", a Buffer over the size bound (of its
\* 262144 octets only the first is kept), or none; opts.subject: "Hi" or none.
Hello == Str(<<104, 101, 108, 108, 111>>)
Hi == Str(<<72, 105>>)
Long == BytesPart(262144, <<120>>)
Messages == {Hello, Long, Undefined}
Subjects == {Hi, Undefined}
Encodings == {IGNORE, TRIVIAL, SIMPLE}

\* The options objects in memory: the caller's, the copy of
\* X.encodePayloadAsync (own), the copy of prependNonce (nonce), and the
\* object the local variable opts of the encode call refers to.
NoMem == [caller |-> <<>>, own |-> <<>>, nonce |-> <<>>, ref |-> "caller"]

\* opts = opts: the local variable left to refer to the object it was
\* given.
objectAssignNoCopy(mem, fresh, ref) == [mem EXCEPT !.ref = ref]

\* opts = objectAssign({}, opts): the properties of the object the variable
\* refers to are copied to a new object, and the variable refers to that.
objectAssign(mem, fresh, ref) == [mem EXCEPT ![fresh] = mem[ref], !.ref = fresh]

\* opts.f = v, for each property f of fields: written to the object the
\* variable refers to.
setFields(mem, fields) == [mem EXCEPT ![mem.ref] = fields @@ @]

NoPow == [getTarget |-> 0, doAsync |-> 0, payloadLength |-> 0, data |-> <<>>,
          result |-> <<>>]
EncIdle == [pc |-> "idle", kind |-> "", api |-> "", opts |-> <<>>, obj |-> <<>>,
            data |-> <<>>, mem |-> NoMem]
DecIdle == [pc |-> "idle", kind |-> "", api |-> "", opts |-> <<>>, buf |-> <<>>,
            decoded |-> <<>>, list |-> <<>>, trial |-> FALSE, blob |-> <<>>, i |-> 0,
            addr |-> <<>>, decrypts |-> <<>>, verifies |-> <<>>]
NoWire == [value |-> <<>>, orig |-> <<>>]
NoCall == [pc |-> "idle", opts |-> <<>>, buf |-> <<>>, decoded |-> <<>>]

\* ------------------------------------------------------- prependNonce

\* nonce = new Buffer(8); nonce.fill(0)
ZeroNonce == [i \in 1..NonceLength |-> 0]

\* util.writeUInt64BE(buf, value, 0): the high and the low 32 bits, each
\* written big-endian (the model's nonces stay below 2^31: the high word is 0).
writeUInt64BE(value) ==
  <<0, 0, 0, 0, (value \div 16777216) % 256, (value \div 65536) % 256,
    (value \div 256) % 256, value % 256>>

\* The object message payload: the 8 nonce octets, then the object without
\* nonce.
WithNonce(obj, nonce) ==
  [k |-> "object", nonce |-> nonce, expires |-> obj.expires, type |-> obj.type,
   version |-> obj.version, stream |-> obj.stream, payload |-> obj.payload]

\* prependNonce without the 8 octets of the nonce in opts.payloadLength.
prependNonceUncompensated(obj, opts) ==
  IF ~(ObjLen(obj) <= MaxObjectLength)
  THEN [fut |-> Rejected("PayloadTooLarge"), pow |-> FALSE, payloadLength |-> 0]
  ELSE IF opts.skipPow
  THEN [fut |-> Fulfilled(WithNonce(obj, ZeroNonce)), pow |-> FALSE, payloadLength |-> 0]
  ELSE [fut |-> Pending, pow |-> TRUE, payloadLength |-> ObjLen(obj)]

\* prependNonce up to its return: rejected by the size assertion, resolved
\* with a zero nonce, or pending on POW.doAsync with opts.payloadLength set.
prependNonce(obj, opts) ==
  IF ~(ObjLen(obj) <= MaxObjectLength)
  THEN [fut |-> Rejected("PayloadTooLarge"), pow |-> FALSE, payloadLength |-> 0]
  ELSE IF opts.skipPow
  THEN [fut |-> Fulfilled(WithNonce(obj, ZeroNonce)), pow |-> FALSE, payloadLength |-> 0]
  ELSE [fut |-> Pending, pow |-> TRUE, payloadLength |-> ObjLen(obj) + NonceLength]

\* The then-callback of POW.doAsync: the nonce written big-endian in the
\* first 8 octets of a buffer of opts.payloadLength, the object copied after.
powThen(obj, nonce) == WithNonce(obj, writeUInt64BE(nonce))

\* X.encodeAsync's then-callback on the value of X.encodePayloadAsync.
encodeAsyncThen(kind, payload) ==
  IF kind \in {"getpubkey", "pubkey"} THEN messageEncode("object", payload)
  ELSE payload

\* The future a then() on fut yields once fut has settled.
Then(fut, f(_)) ==
  IF fut.state = "fulfilled" THEN Fulfilled(f(fut.value[1])) ELSE fut

\* The public future of getpubkey/pubkey once prependNonce's promise is nf.
OuterOf(kind, api, nf) ==
  IF api = "encodeAsync"
  THEN Then(nf, LAMBDA v : encodeAsyncThen(kind, v))
  ELSE nf

\* What msg/broadcast encodePayloadAsync's last then-callback returns.
NonceAndObj(obj) == [k |-> "pair", obj |-> obj]

SettleLog(f) ==
  IF f.state = "fulfilled" THEN <<"encode fulfilled">>
  ELSE IF f.state = "rejected" THEN <<"encode rejected">> ELSE <<>>

\* A call of prependNonce(obj, opts) from an encode call of the given kind
\* and entry point, with the call's public future following it (chained is
\* FALSE for msg and broadcast, whose future is fulfilled with NonceAndObj).
CallPrependNonce(kind, api, opts, obj, chained, mem) ==
  LET r == prependNonce(obj, opts)
      copied == objectAssign(mem, "nonce", mem.ref)
      outer == IF chained THEN OuterOf(kind, api, r.fut)
               ELSE OuterOf(kind, api, Fulfilled(NonceAndObj(obj)))
  IN /\ nonceFut' = r.fut
     /\ pow' = IF r.pow
               THEN [getTarget |-> pow.getTarget + 1, doAsync |-> pow.doAsync + 1,
                     payloadLength |-> r.payloadLength, data |-> <<obj>>,
                     result |-> <<>>]
               ELSE pow
     /\ encFut' = outer
     /\ log' = log \o <<"prependNonce">>
                   \o (IF r.pow THEN <<"pow">>
                       ELSE IF r.fut.state = "fulfilled" THEN <<"nonce fulfilled">>
                       ELSE <<"nonce rejected">>)
                   \o SettleLog(outer)
     /\ enc' = [pc |-> IF r.pow THEN "pow" ELSE "done", kind |-> kind, api |-> api,
                opts |-> opts, obj |-> <<obj>>, data |-> <<>>,
                mem |-> IF r.fut.state = "rejected" THEN mem
                        ELSE IF r.pow
                        THEN setFields(copied, [payloadLength |-> r.payloadLength])
                        ELSE copied]

\* ------------------------------------------------------------- encode

\* var encoding = opts.encoding || DEFAULT_ENCODING
encodingOf(opts) == IF opts.encoding = 0 THEN DEFAULT_ENCODING ELSE opts.encoding

\* A value that is false in a condition: undefined or the empty string.
Falsy(v) == v = Undefined \/ v = Str(<<>>)

\* Buffer.isBuffer(v) ? v : new Buffer(v, "utf8"), for a Buffer or a string
\* (new Buffer(undefined, "utf8") throws a TypeError).
toBuffer(v) ==
  IF v.k = "bytes" THEN v ELSE BytesPart(Len(Utf8Encode(v.chars)), Utf8Encode(v.chars))

\* new Buffer("Subject:") and new Buffer("\nBody:"), ASCII.
SubjectMark == <<83, 117, 98, 106, 101, 99, 116, 58>>
BodyMark == <<10, 66, 111, 100, 121, 58>>

\* encodeMessage(opts): the error it throws, or the message Buffer.
encodeMessage(opts) ==
  LET encoding == encodingOf(opts)
      empty == encoding = IGNORE /\ Falsy(opts.message)
      message == IF empty THEN BytesPart(0, <<>>) ELSE toBuffer(opts.message)
      subject == toBuffer(opts.subject)
  IN IF ~empty /\ opts.message = Undefined THEN [err |-> "TypeError", buf |-> <<>>]
     ELSE IF encoding = SIMPLE /\ ~Falsy(opts.subject)
     THEN [err |-> "",
           buf |-> BytesPart(8 + subject.len + 6 + message.len,
                             SubjectMark \o subject.text \o BodyMark \o message.text)]
     ELSE [err |-> "", buf |-> message]

\* The unsigned pubkey v3 body: behavior, the two keys, the difficulty.
pubkeyData(from) == <<KeysPart(from), VI(getTrials(from)), VI(getExtraBytes(from))>>

\* The unencrypted msg data before the signature.
msgData(from, to, opts) ==
  <<VI(from.version), VI(from.stream), KeysPart(from)>>
    \o (IF from.version >= 3 THEN <<VI(getTrials(from)), VI(getExtraBytes(from))>> ELSE <<>>)
    \o <<RipePart(ripe(to)), VI(encodingOf(opts)), VI(encodeMessage(opts).buf.len),
         encodeMessage(opts).buf>>
    \o <<VI(0)>>

\* The unencrypted broadcast data before the signature.
broadData(from, opts) ==
  <<VI(from.version), VI(from.stream), KeysPart(from)>>
    \o (IF from.version >= 3 THEN <<VI(getTrials(from)), VI(getExtraBytes(from))>> ELSE <<>>)
    \o <<VI(encodingOf(opts)), VI(encodeMessage(opts).buf.len), encodeMessage(opts).buf>>

\* var_int.encode(sig.length), sig
SigParts(sig) == <<VI(PartLen(SigPart(sig))), SigPart(sig)>>

\* The object version an encode call writes.
pubkeyVersion(opts) == IF opts.to # <<>> THEN opts.to[1].version ELSE 4
pubkeyStream(opts) == IF opts.to # <<>> THEN opts.to[1].stream ELSE 1
\* Version 5 kept for the addresses above version 4.
broadcastVersionAbove4(from) == IF from.version > 4 THEN 5 ELSE 4

broadcastVersion(from) == IF from.version >= 4 THEN 5 ELSE 4

\* The options of the private copy: type, version, stream and objectPayload.
objOpts(opts, type, version, stream, payload) ==
  [ttl |-> opts.ttl, type |-> type, version |-> version, stream |-> stream,
   objectPayload |-> payload]

\* The object without nonce and the data to sign that an encode call of
\* the kind builds before its first asynchronous stage.
getpubkeyObj(opts) ==
  LET to == opts.to[1] IN
  encodePayloadWithoutNonce(objOpts(opts, GETPUBKEY, to.version, to.stream,
    IF to.version < 4 THEN <<RipePart(ripe(to))>> ELSE <<TagPart(getTag(to))>>))

\* The pubkey v4 tagged for the receiver given in opts.to.
pubkeyObjRecipientTag(opts) ==
  LET from == opts.from[1]
      version == pubkeyVersion(opts)
  IN encodePayloadWithoutNonce(objOpts(opts, PUBKEY, version, pubkeyStream(opts),
       IF version = 2 THEN <<KeysPart(from)>>
       ELSE IF version = 3 THEN pubkeyData(from)
       ELSE <<TagPart(getTag(IF opts.to # <<>> THEN opts.to[1] ELSE from))>>))

pubkeyObj(opts) ==
  LET from == opts.from[1]
      version == pubkeyVersion(opts)
  IN encodePayloadWithoutNonce(objOpts(opts, PUBKEY, version, pubkeyStream(opts),
       IF version = 2 THEN <<KeysPart(from)>>
       ELSE IF version = 3 THEN pubkeyData(from)
       ELSE <<TagPart(getTag(from))>>))

msgObj(opts) ==
  encodePayloadWithoutNonce(objOpts(opts, MSG, 1, opts.to[1].stream, <<>>))

broadcastObj(opts) ==
  LET from == opts.from[1] IN
  encodePayloadWithoutNonce(objOpts(opts, BROADCAST, broadcastVersion(from), from.stream,
    IF from.version >= 4 THEN <<TagPart(getTag(from))>> ELSE <<>>))

\* Buffer.concat([obj].concat(data)): the object without nonce, then data.
ObjBytes(obj) == <<ObjHeader(obj)>> \o obj.payload

\* The well-formed options of each kind's encode operation.
OptsOf(kind) ==
  { [from |-> f, to |-> t, ttl |-> 1, skipPow |-> sp, encoding |-> e, message |-> m,
     subject |-> s] :
      f \in {<<a>> : a \in Addrs} \cup {<<>>},
      t \in {<<a>> : a \in Addrs} \cup {<<>>},
      sp \in BOOLEAN, e \in Encodings, m \in Messages, s \in Subjects }

\* The options an operation does not read are left out.
NoText(o) == o.encoding = IGNORE /\ o.message = Undefined /\ o.subject = Undefined
WellFormed(kind, o) ==
  CASE kind = "getpubkey" -> o.from = <<>> /\ o.to # <<>> /\ NoText(o)
    [] kind = "pubkey" -> o.from # <<>> /\ NoText(o)
    [] kind = "msg" -> o.from # <<>> /\ o.to # <<>>
    [] kind = "broadcast" -> o.from # <<>> /\ o.to = <<>>

\* The properties X.encodePayloadAsync assigns to its opts before it
\* builds the object without nonce obj.
optsAssigned(obj) ==
  [type |-> obj.type, version |-> obj.version, stream |-> obj.stream,
   objectPayload |-> obj.payload]

\* The options objects once X.encodePayloadAsync, called with opts, has
\* assigned the properties fields.
encodeMem(opts, fields) ==
  setFields(objectAssign([NoMem EXCEPT !.caller = opts], "own", "caller"), fields)

\* X.encodeAsync(opts) / X.encodePayloadAsync(opts), up to the first stage
\* that suspends.
EncodeStart(kind, api, opts) ==
  /\ enc.pc = "idle"
  /\ WellFormed(kind, opts)
  /\ UNCHANGED <<wire, dec, decFut, msgCall>>
  /\ CASE kind = "getpubkey" ->
            CallPrependNonce(kind, api, opts, getpubkeyObj(opts), TRUE,
                             encodeMem(opts, optsAssigned(getpubkeyObj(opts))))
       [] kind = "pubkey" /\ pubkeyVersion(opts) = 2 ->
            CallPrependNonce(kind, api, opts, pubkeyObj(opts), TRUE,
                             encodeMem(opts, optsAssigned(pubkeyObj(opts))))
       [] kind \in {"msg", "broadcast"} /\ encodeMessage(opts).err # "" ->
            /\ enc' = [pc |-> "threw", kind |-> kind, api |-> api, opts |-> opts,
                       obj |-> <<>>, data |-> <<>>,
                       mem |-> encodeMem(opts,
                                 [f \in {"type", "version", "stream"} |->
                                    optsAssigned(IF kind = "msg" THEN msgObj(opts)
                                                 ELSE broadcastObj(opts))[f]])]
            /\ encFut' = Rejected(encodeMessage(opts).err)
            /\ log' = log \o <<"encode rejected">>
            /\ UNCHANGED <<nonceFut, pow>>
       [] OTHER ->
            LET from == opts.from[1]
                obj == CASE kind = "pubkey" -> pubkeyObj(opts)
                         [] kind = "msg" -> msgObj(opts)
                         [] kind = "broadcast" -> broadcastObj(opts)
                data == CASE kind = "pubkey" /\ obj.version = 3 -> <<>>
                          [] kind = "pubkey" /\ obj.version = 4 -> pubkeyData(from)
                          [] kind = "msg" -> msgData(from, opts.to[1], opts)
                          [] kind = "broadcast" -> broadData(from, opts)
            IN /\ enc' = [pc |-> "sign", kind |-> kind, api |-> api, opts |-> opts,
                          obj |-> <<obj>>, data |-> data,
                          mem |-> encodeMem(opts, optsAssigned(obj))]
               /\ log' = log \o <<"sign">>
               /\ UNCHANGED <<encFut, nonceFut, pow>>

\* bmcrypto.sign is fulfilled: the then-callback of the sign stage.
SignDone ==
  /\ enc.pc = "sign"
  /\ UNCHANGED <<wire, dec, decFut, msgCall>>
  /\ LET obj == enc.obj[1]
         from == enc.opts.from[1]
         sig == sign(signPrivateKey(from), ObjBytes(obj) \o enc.data)
     IN IF enc.kind = "pubkey" /\ obj.version = 3
        THEN CallPrependNonce(enc.kind, enc.api, enc.opts,
               [obj EXCEPT !.payload = @ \o SigParts(sig)], TRUE, enc.mem)
        ELSE /\ enc' = [enc EXCEPT !.pc = "encrypt", !.data = @ \o SigParts(sig)]
             /\ log' = log \o <<"signed", "encrypt">>
             /\ UNCHANGED <<encFut, nonceFut, pow>>

\* The public key an encode call encrypts to.
encryptKey(kind, opts) ==
  CASE kind = "pubkey" -> getPubkeyPublicKey(opts.from[1])
    [] kind = "msg" -> encPublicKey(opts.to[1])
    [] kind = "broadcast" -> getBroadcastPublicKey(opts.from[1])

\* bmcrypto.encrypt is fulfilled: the then-callback of the encrypt stage.
EncryptDone ==
  /\ enc.pc = "encrypt"
  /\ UNCHANGED <<wire, dec, decFut, msgCall>>
  /\ LET blob == encrypt(encryptKey(enc.kind, enc.opts), enc.data)
         obj == [enc.obj[1] EXCEPT !.payload = @ \o <<blob>>]
     IN CallPrependNonce(enc.kind, enc.api, enc.opts, obj, enc.kind = "pubkey", enc.mem)

\* POW.doAsync is fulfilled with a nonce: its then-callback in prependNonce.
PowDone(nonce) ==
  /\ enc.pc = "pow"
  /\ UNCHANGED <<wire, dec, decFut, msgCall>>
  /\ pow' = [pow EXCEPT !.result = <<nonce>>]
  /\ LET nf == Fulfilled(powThen(enc.obj[1], nonce))
         outer == IF enc.kind \in {"getpubkey", "pubkey"}
                  THEN OuterOf(enc.kind, enc.api, nf) ELSE encFut
     IN /\ nonceFut' = nf
        /\ encFut' = outer
        /\ log' = log \o <<"pow done", "nonce fulfilled">>
                      \o (IF encFut.state = "pending" THEN SettleLog(outer) ELSE <<>>)
        /\ enc' = [enc EXCEPT !.pc = "done"]

\* The signature and the complete object without nonce that an encode call
\* with these options hands to prependNonce (the stages above, composed).
dataToSign(kind, opts) ==
  LET from == opts.from[1] IN
  CASE kind = "pubkey" /\ pubkeyVersion(opts) = 3 -> ObjBytes(pubkeyObj(opts))
    [] kind = "pubkey" /\ pubkeyVersion(opts) = 4 -> ObjBytes(pubkeyObj(opts)) \o pubkeyData(from)
    [] kind = "msg" -> ObjBytes(msgObj(opts)) \o msgData(from, opts.to[1], opts)
    [] kind = "broadcast" -> ObjBytes(broadcastObj(opts)) \o broadData(from, opts)

finalObj(kind, opts) ==
  LET sig == sign(signPrivateKey(opts.from[1]), dataToSign(kind, opts)) IN
  CASE kind = "getpubkey" -> getpubkeyObj(opts)
    [] kind = "pubkey" /\ pubkeyVersion(opts) = 2 -> pubkeyObj(opts)
    [] kind = "pubkey" /\ pubkeyVersion(opts) = 3 ->
         [pubkeyObj(opts) EXCEPT !.payload = @ \o SigParts(sig)]
    [] kind = "pubkey" /\ pubkeyVersion(opts) = 4 ->
         [pubkeyObj(opts) EXCEPT !.payload =
            @ \o <<encrypt(encryptKey(kind, opts), pubkeyData(opts.from[1]) \o SigParts(sig))>>]
    [] kind = "msg" ->
         [msgObj(opts) EXCEPT !.payload =
            <<encrypt(encryptKey(kind, opts),
                      msgData(opts.from[1], opts.to[1], opts) \o SigParts(sig))>>]
    [] kind = "broadcast" ->
         [broadcastObj(opts) EXCEPT !.payload =
            @ \o <<encrypt(encryptKey(kind, opts),
                           broadData(opts.from[1], opts) \o SigParts(sig))>>]

InitEnc ==
  /\ enc = EncIdle /\ encFut = Pending /\ nonceFut = Pending /\ pow = NoPow
  /\ log = <<>> /\ wire = NoWire /\ dec = DecIdle /\ decFut = Pending
  /\ msgCall = NoCall

NextEnc ==
  \/ \E kind \in Kinds, api \in Apis : \E opts \in OptsOf(kind) : EncodeStart(kind, api, opts)
  \/ SignDone
  \/ EncryptDone
  \/ \E nonce \in PowNonces : PowDone(nonce)

SpecEnc == InitEnc /\ [][NextEnc]_vars

\* The object an encode call builds stage by stage is finalObj.
EncodeAgrees ==
  enc.pc \in {"pow", "done"} => enc.obj[1] = finalObj(enc.kind, enc.opts)

\* --------------------------------------------------------- candidates

\* opts.needed / opts.identities / opts.subscriptions: absent, a single
\* Address, an array, or an object keyed by tag (list is then the order in
\* which the entries were stored).  No address is listed twice.
Seqs(S, n) ==
  UNION {{l \in [1..m -> S] : \A i, j \in 1..m : l[i] = l[j] => i = j} : m \in 0..n}
Candidates ==
  {[shape |-> "absent", list |-> <<>>]}
    \cup {[shape |-> "single", list |-> <<a>>] : a \in Addrs}
    \cup {[shape |-> sh, list |-> l] : sh \in {"array", "map"}, l \in Seqs(Addrs, MaxCands)}

\* The property key an address is stored under: String(addr.getTag()).
mapKey(a) == Utf8ToString(getTag(a))

\* map[key] = a: a new key is appended, a known key keeps its place.
mapSet(m, key, a) ==
  IF \E i \in DOMAIN m : m[i].key = key
  THEN [i \in DOMAIN m |-> IF m[i].key = key THEN [key |-> key, addr |-> a] ELSE m[i]]
  ELSE Append(m, [key |-> key, addr |-> a])

RECURSIVE mapOf(_)
mapOf(list) ==
  IF list = <<>> THEN <<>>
  ELSE LET a == list[Len(list)] IN mapSet(mapOf(SubSeq(list, 1, Len(list) - 1)), mapKey(a), a)

\* map[key]: the stored address, if any.
mapGet(m, key) ==
  LET hits == {i \in DOMAIN m : m[i].key = key} IN
  IF hits = {} THEN <<>> ELSE <<m[CHOOSE i \in hits : TRUE].addr>>

\* Object.keys(map).map(k => map[k])
mapValues(m) == [i \in DOMAIN m |-> m[i].addr]

\* findAddrByTag(addrs, tag): the address found, if any.
findAddrByTag(addrs, tag) ==
  IF addrs.shape # "map"
  THEN LET hits == {i \in DOMAIN addrs.list :
                      addrs.list[i].version >= 4 /\ getTag(addrs.list[i]) = tag}
       IN IF hits = {} THEN <<>>
          ELSE <<addrs.list[CHOOSE i \in hits : \A j \in hits : i <= j]>>
  ELSE LET addr == mapGet(mapOf(addrs.list), Utf8ToString(tag))
       IN IF addr # <<>> /\ addr[1].version >= 4 THEN addr ELSE <<>>

\* tryDecryptMsg's candidate list: [identities] for an Address, identities
\* itself otherwise; identities[0].encPrivateKey throws for a keyed object
\* (no length, no [0]) and identities.length throws when it is absent.
msgIdentities(identities) ==
  CASE identities.shape = "single" -> [err |-> "", list |-> identities.list]
    [] identities.shape = "array" -> [err |-> "", list |-> identities.list]
    [] OTHER -> [err |-> "TypeError", list |-> <<>>]

\* The candidate list with the addresses of every version kept.
broadcastV4SubscriptionsUnfiltered(subscriptions) ==
  LET all == CASE subscriptions.shape = "map" -> mapValues(mapOf(subscriptions.list))
               [] OTHER -> subscriptions.list
  IN IF subscriptions.shape = "absent" THEN [err |-> "TypeError", list |-> <<>>]
     ELSE [err |-> "", list |-> all]

\* tryDecryptBroadcastV4's candidate list: the addresses of version < 4.
broadcastV4Subscriptions(subscriptions) ==
  LET all == CASE subscriptions.shape = "map" -> mapValues(mapOf(subscriptions.list))
               [] OTHER -> subscriptions.list
  IN IF subscriptions.shape = "absent" THEN [err |-> "TypeError", list |-> <<>>]
     ELSE [err |-> "", list |-> SelectSeq(all, LAMBDA a : a.version < 4)]

\* ------------------------------------------------------------- decode

\* extractPubkey(buf): behavior and the two keys, 0x04 restored.
extractPubkey(buf) ==
  [behavior |-> buf[1].behavior, signPublicKey |-> buf[1].sign,
   encPublicKey |-> buf[1].enc, length |-> PubkeyLength]

\* Whether buf holds a pubkey v3 body: keys, two var_ints, sig_length, sig.
IsPubkeyV3Body(buf) ==
  /\ Len(buf) >= 5
  /\ buf[1].k = "keys" /\ buf[2].k = "varint" /\ buf[3].k = "varint"
  /\ buf[4].k = "varint" /\ buf[5].k = "sigbytes"

\* extractPubkeyV3(buf) on a pubkey v3 body; _siglen counts sig_length too.
extractPubkeyV3(buf) ==
  LET siglen == PartLen(buf[4]) + buf[4].value IN
  [nonceTrialsPerByte |-> buf[2].value, payloadLengthExtraBytes |-> buf[3].value,
   signature |-> buf[5].sig, siglen |-> siglen,
   length |-> PubkeyLength + PartLen(buf[2]) + PartLen(buf[3]) + siglen]
    @@ extractPubkey(buf)

\* util.popkey(obj, key): obj without the key.
popkey(obj, key) == [f \in DOMAIN obj \ {key} |-> obj[f]]

\* The octets of buf other than a pubkey v3 body, read as one: the keys
\* and the signature are whatever octets lie there.
Misparsed == [k |-> "misparsed"]
garbagePubkeyV3 ==
  [behavior |-> 0, signPublicKey |-> 0, encPublicKey |-> 0, length |-> PubkeyLength,
   nonceTrialsPerByte |-> 0, payloadLengthExtraBytes |-> 0, signature |-> GarbageSig,
   siglen |-> 1]

\* The position of the last occurrence of the pattern.
lastIndexOf(s, pattern) ==
  LET hits == {i \in 0..(Len(s) - Len(pattern)) :
                 SubSeq(s, i + 1, i + Len(pattern)) = pattern}
  IN IF hits = {} THEN -1 ELSE CHOOSE i \in hits : \A j \in hits : i >= j

\* decodeMessage splitting at the last "\nBody:" instead of the first.
decodeMessageLastBody(message, encoding) ==
  LET text == IF encoding = TRIVIAL \/ encoding = SIMPLE
              THEN Str(Utf8ToString(message.text)) ELSE message
      subject == slice(text.chars, 8, Len(text.chars))
      index == lastIndexOf(subject, BodyMark)
  IN IF encoding # SIMPLE THEN [message |-> text]
     ELSE IF slice(text.chars, 0, 8) = SubjectMark
     THEN IF index # -1
          THEN [subject |-> Str(slice(subject, 0, index)),
                message |-> Str(slice(subject, index + 6, Len(subject)))]
          ELSE [subject |-> Str(subject), message |-> Str(<<>>)]
     ELSE [subject |-> Str(<<>>), message |-> text]

\* decodeMessage(message, encoding): the message as a string (TRIVIAL,
\* SIMPLE) or as the Buffer it is, and for SIMPLE the subject split off.
decodeMessage(message, encoding) ==
  LET text == IF encoding = TRIVIAL \/ encoding = SIMPLE
              THEN Str(Utf8ToString(message.text)) ELSE message
      subject == slice(text.chars, 8, Len(text.chars))
      index == indexOf(subject, BodyMark)
  IN IF encoding # SIMPLE THEN [message |-> text]
     ELSE IF slice(text.chars, 0, 8) = SubjectMark
     THEN IF index # -1
          THEN [subject |-> Str(slice(subject, 0, index)),
                message |-> Str(slice(subject, index + 6, Len(subject)))]
          ELSE [subject |-> Str(subject), message |-> Str(<<>>)]
     ELSE [subject |-> Str(<<>>), message |-> text]

\* The arguments of a bmcrypto.verify call.
VerifyArgs(pub, data, sig) == [pub |-> pub, data |-> data, sig |-> sig]
NoVerify == <<>>

\* The result of a synchronous stretch of a decode call: the error it threw
\* (if any), the decoded structure so far and the verify call it made.
Threw(e) == [err |-> e, decoded |-> <<>>, verify |-> NoVerify]
Parsed(decoded, verifyArgs) == [err |-> "", decoded |-> <<decoded>>, verify |-> verifyArgs]

\* The first 32 octets of objectPayload, and the rest of it.
tagOf(objectPayload) ==
  IF objectPayload[1].k = "tag32" THEN objectPayload[1].tag ELSE GarbageTag
afterTag(objectPayload) ==
  IF objectPayload[1].k = "tag32" THEN Tail(objectPayload) ELSE <<Misparsed>>

\* The slice taken from the start of the buffer, the nonce included.
headerFromNonce(buf, decoded) == HeaderSlice(buf, 0, decoded.headerLength)

\* buf.slice(8, decoded.headerLength): the object header without nonce.
headerWithoutNonce(buf, decoded) == HeaderSlice(buf, NonceLength, decoded.headerLength)

\* pubkey v3, and pubkey v4 after decryption: the body is parsed and the
\* signature check is started.  misread: a body that is not a v3 body fails
\* the length assertion (TRUE) or yields garbage (FALSE).
pubkeyBody(buf, decoded, body, tagged, misread) ==
  IF BufLen(body) < PubkeyV3MinLength THEN Threw("BadLength")
  ELSE IF ~IsPubkeyV3Body(body)
  THEN IF misread THEN Threw("BadLength")
       ELSE Parsed(popkey(garbagePubkeyV3, "siglen") @@ decoded,
                   <<VerifyArgs(0, <<headerWithoutNonce(buf, decoded),
                                     Misparsed>>, GarbageSig)>>)
  ELSE LET x == extractPubkeyV3(body)
           d == x @@ decoded
           data == <<headerWithoutNonce(buf, decoded)>>
                     \o (IF tagged THEN <<buf.payload[1]>> ELSE <<>>)
                     \o SubSeq(body, 1, 3)
       IN IF BufLen(SubSeq(body, 5, Len(body))) < body[4].value THEN Threw("BadLength")
          ELSE Parsed(popkey(d, "siglen"),
                      <<VerifyArgs(d.signPublicKey, data, d.signature)>>)

\* Whether a decrypted msg/broadcast body starts as it must: two var_ints
\* and the key block; msgHasPow, broadcastHasPow: the two difficulty var_ints
\* follow the keys (a msg has the ripe there otherwise, a broadcast the
\* encoding, the message length and the message).
IsBodyPrefix(c) ==
  Len(c) >= 8 /\ c[1].k = "varint" /\ c[2].k = "varint" /\ c[3].k = "keys"
msgHasPow(c) == c[4].k = "varint"
broadcastHasPow(c) == c[6].k = "varint"

\* The ripe check left out.
ripeUnchecked(decodedRipe, addr) == TRUE

\* bufferEqual(decoded.ripe, decInfo.addr.ripe)
ripeMatches(decodedRipe, addr) == decodedRipe = ripe(addr)

\* msg.decodePayloadAsync's then-callback on the decrypted body: the parse,
\* the ripe check and the start of the signature check.  A length or a
\* sender version that disagrees with what follows it shifts the parse: it
\* ends in a failed assertion (misread) or in a signature check of what
\* the shifted fields hold.
msgBody(buf, decoded, objectPayload, decrypted, addr, misread) ==
  LET c == decrypted
      senderVersion == c[1].value
      r == IF msgHasPow(c) THEN 6 ELSE 4
      d == [senderVersion |-> senderVersion, senderStream |-> c[2].value,
            ripe |-> c[r].ripe, encoding |-> c[r + 1].value,
            ack |-> <<>>, signature |-> c[r + 6].sig,
            length |-> BufLen(objectPayload)]
             @@ decodeMessage(c[r + 3], c[r + 1].value)
             @@ (IF senderVersion >= 3
                 THEN [nonceTrialsPerByte |-> c[4].value,
                       payloadLengthExtraBytes |-> c[5].value]
                 ELSE <<>>)
             @@ extractPubkey(<<c[3]>>) @@ decoded
      data == <<headerWithoutNonce(buf, decoded)>> \o SubSeq(c, 1, r + 4)
  IN IF ~IsBodyPrefix(c) THEN Threw("BadLength")
     ELSE IF senderVersion < 2 \/ senderVersion > 4 THEN Threw("UnsupportedVersion")
     ELSE IF (senderVersion >= 3) # msgHasPow(c)
     THEN IF senderVersion >= 3 /\ misread THEN Threw("BadLength") ELSE Threw("RipeMismatch")
     ELSE IF ~ripeMatches(c[r].ripe, addr) THEN Threw("RipeMismatch")
     ELSE IF c[r + 3].len < c[r + 2].value THEN Threw("BadLength")
     ELSE IF c[r + 3].len # c[r + 2].value \/ c[r + 4].value # 0
     THEN IF misread THEN Threw("BadLength")
          ELSE Parsed(popkey(d, "signature"),
                      <<VerifyArgs(d.signPublicKey, data \o <<Misparsed>>, GarbageSig)>>)
     ELSE IF PartLen(c[r + 6]) < c[r + 5].value THEN Threw("BadLength")
     ELSE Parsed(d, <<VerifyArgs(d.signPublicKey, data, d.signature)>>)

\* The cross-check left out.
senderUnchecked(version, sender, addr, decoded) == TRUE

\* The cross-check of the sender rebuilt from the cleartext: its ripe
\* against the subscription's (v4), its tag against the object's (v5).
senderMatches(version, sender, addr, decoded) ==
  IF version = 4 THEN ripe(sender) = ripe(addr) ELSE getTag(sender) = decoded.tag

\* broadcast.decodePayloadAsync's then-callback on the decrypted body.
broadcastBody(buf, decoded, objectPayload, decrypted, addr, misread) ==
  LET c == decrypted
      version == decoded.version
      senderVersion == c[1].value
      senderStream == c[2].value
      keys == extractPubkey(<<c[3]>>)
      sender == NewAddress(senderVersion, senderStream, keys.signPublicKey,
                           keys.encPublicKey)
      e == IF broadcastHasPow(c) THEN 6 ELSE 4
      d == [senderVersion |-> senderVersion, senderStream |-> senderStream,
            encoding |-> c[e].value, signature |-> c[e + 4].sig,
            length |-> BufLen(objectPayload)]
             @@ decodeMessage(c[e + 2], c[e].value)
             @@ (IF senderVersion >= 3
                 THEN [nonceTrialsPerByte |-> c[4].value,
                       payloadLengthExtraBytes |-> c[5].value]
                 ELSE <<>>)
             @@ keys @@ decoded
      header == <<headerWithoutNonce(buf, decoded)>>
                  \o (IF version # 4 THEN <<buf.payload[1]>> ELSE <<>>)
  IN IF ~IsBodyPrefix(c) THEN Threw("BadLength")
     ELSE IF version = 4 /\ (senderVersion < 2 \/ senderVersion > 3)
     THEN Threw("UnsupportedVersion")
     ELSE IF version # 4 /\ senderVersion # 4 THEN Threw("UnsupportedVersion")
     ELSE IF senderStream # decoded.stream THEN Threw("StreamMismatch")
     ELSE IF ~senderMatches(version, sender, addr, decoded) THEN Threw("KeyMismatch")
     ELSE IF (senderVersion >= 3) # broadcastHasPow(c) \/ c[e + 1].value # c[e + 2].len
     THEN IF misread THEN Threw("BadLength")
          ELSE Parsed(keys @@ decoded,
                      <<VerifyArgs(keys.signPublicKey, header \o <<Misparsed>>, GarbageSig)>>)
     ELSE IF PartLen(c[e + 4]) < c[e + 3].value THEN Threw("BadLength")
     ELSE Parsed(d, <<VerifyArgs(d.signPublicKey, header \o SubSeq(c, 1, e + 2),
                                 d.signature)>>)

\* The private key a decode call of the kind decrypts with for a candidate.
decryptKey(kind, a) ==
  CASE kind = "pubkey" -> getPubkeyPrivateKey(a)
    [] kind = "msg" -> encPrivateKey(a)
    [] kind = "broadcast" -> getBroadcastPrivateKey(a)

\* What the synchronous start of X.decodePayloadAsync comes to: an error
\* thrown, the decoded structure (resolve), a verify call, or the list of
\* candidates to decrypt blob with (trial: the next one is tried on failure).
Start(err, next, decoded, verifyArgs, list, trial, blob) ==
  [err |-> err, next |-> next, decoded |-> decoded, verify |-> verifyArgs,
   list |-> list, trial |-> trial, blob |-> blob]
StartThrew(e) == Start(e, "done", <<>>, <<>>, <<>>, FALSE, <<>>)
StartResolve(d) == Start("", "resolve", <<d>>, <<>>, <<>>, FALSE, <<>>)
StartDecrypt(d, list, trial, blob) == Start("", "decrypt", <<d>>, <<>>, list, trial, blob)

ripeOf(objectPayload) ==
  IF objectPayload[1].k = "ripe20" THEN objectPayload[1].ripe ELSE GarbageRipe

\* getpubkey.decodePayloadAsync accepting a payload longer than the ripe or
\* the tag.
getpubkeyDecodePayloadAtLeast(buf, opts) ==
  LET decoded == popkey(decodePayload(buf), "objectPayload")
      objectPayload == buf.payload
  IN IF decoded.type # GETPUBKEY THEN StartThrew("WrongType")
     ELSE IF decoded.version < 2 \/ decoded.version > 4 THEN StartThrew("UnsupportedVersion")
     ELSE IF decoded.version < 4
     THEN IF BufLen(objectPayload) < RipeLength THEN StartThrew("BadLength")
          ELSE StartResolve([ripe |-> ripeOf(objectPayload)] @@ decoded)
     ELSE IF BufLen(objectPayload) < TagLength THEN StartThrew("BadLength")
          ELSE StartResolve([tag |-> tagOf(objectPayload)] @@ decoded)

getpubkeyDecodePayload(buf, opts) ==
  LET decoded == popkey(decodePayload(buf), "objectPayload")
      objectPayload == buf.payload
  IN IF decoded.type # GETPUBKEY THEN StartThrew("WrongType")
     ELSE IF decoded.version < 2 \/ decoded.version > 4 THEN StartThrew("UnsupportedVersion")
     ELSE IF decoded.version < 4
     THEN IF BufLen(objectPayload) # RipeLength THEN StartThrew("BadLength")
          ELSE StartResolve([ripe |-> ripeOf(objectPayload)] @@ decoded)
     ELSE IF BufLen(objectPayload) # TagLength THEN StartThrew("BadLength")
          ELSE StartResolve([tag |-> tagOf(objectPayload)] @@ decoded)

pubkeyDecodePayload(buf, opts, misread) ==
  LET decoded == popkey(decodePayload(buf), "objectPayload")
      objectPayload == buf.payload
      version == decoded.version
      tag == tagOf(objectPayload)
      addr == findAddrByTag(opts, tag)
      v3 == pubkeyBody(buf, decoded, objectPayload, FALSE, misread)
  IN IF decoded.type # PUBKEY THEN StartThrew("WrongType")
     ELSE IF version < 2 \/ version > 4 THEN StartThrew("UnsupportedVersion")
     ELSE IF version = 2
     THEN IF BufLen(objectPayload) # PubkeyLength THEN StartThrew("BadLength")
          ELSE StartResolve(extractPubkey(objectPayload) @@ decoded)
     ELSE IF version = 3
     THEN IF v3.err # "" THEN StartThrew(v3.err)
          ELSE Start("", "verify", v3.decoded, v3.verify, <<>>, FALSE, <<>>)
     ELSE IF BufLen(objectPayload) < TagLength THEN StartThrew("BadLength")
     ELSE IF addr = <<>> THEN StartThrew("NotInterested")
     ELSE StartDecrypt([tag |-> tag] @@ decoded, addr, FALSE, afterTag(objectPayload))

msgDecodePayload(buf, opts) ==
  LET decoded == popkey(decodePayload(buf), "objectPayload")
      identities == msgIdentities(opts)
  IN IF decoded.type # MSG THEN StartThrew("WrongType")
     ELSE IF decoded.version # 1 THEN StartThrew("UnsupportedVersion")
     ELSE IF identities.err # "" THEN StartThrew(identities.err)
     ELSE StartDecrypt(decoded, identities.list, TRUE, buf.payload)

broadcastDecodePayload(buf, opts) ==
  LET decoded == popkey(decodePayload(buf), "objectPayload")
      objectPayload == buf.payload
      version == decoded.version
      subscriptions == broadcastV4Subscriptions(opts)
      tag == tagOf(objectPayload)
      addr == findAddrByTag(opts, tag)
  IN IF decoded.type # BROADCAST THEN StartThrew("WrongType")
     ELSE IF version # 4 /\ version # 5 THEN StartThrew("UnsupportedVersion")
     ELSE IF version = 4
     THEN IF subscriptions.err # "" THEN StartThrew(subscriptions.err)
          ELSE StartDecrypt(decoded, subscriptions.list, TRUE, objectPayload)
     ELSE IF BufLen(objectPayload) < TagLength THEN StartThrew("BadLength")
     ELSE IF addr = <<>> THEN StartThrew("NotInterested")
     ELSE StartDecrypt([tag |-> tag] @@ decoded, addr, FALSE, afterTag(objectPayload))

\* message.decode(buf) and the command assertion of X.decodeAsync; a value
\* that is not the octets the entry point parses makes the parse throw.
unframe(api, v) ==
  IF v.k = "pair" THEN [err |-> "TypeError", buf |-> <<>>]
  ELSE IF api = "decodeAsync"
  THEN IF v.k # "message" THEN [err |-> "BadMessage", buf |-> <<>>]
       ELSE IF v.command # "object" THEN [err |-> "BadCommand", buf |-> <<>>]
       ELSE [err |-> "", buf |-> <<v.payload>>]
  ELSE IF v.k # "object" THEN [err |-> "BadObject", buf |-> <<>>]
       ELSE [err |-> "", buf |-> <<v>>]

decodePayloadStart(kind, buf, opts, misread) ==
  CASE kind = "getpubkey" -> getpubkeyDecodePayload(buf, opts)
    [] kind = "pubkey" -> pubkeyDecodePayload(buf, opts, misread)
    [] kind = "msg" -> msgDecodePayload(buf, opts)
    [] kind = "broadcast" -> broadcastDecodePayload(buf, opts)

\* The decode call ends: its future is settled.
DecodeSettles(d, fut, events) ==
  /\ dec' = [d EXCEPT !.pc = "done"]
  /\ decFut' = fut
  /\ log' = log \o events
              \o <<IF fut.state = "fulfilled" THEN "decode fulfilled" ELSE "decode rejected">>

\* The trial made from the last candidate backwards.
InnerFromLast(d, i, events) ==
  IF i > Len(d.list)
  THEN /\ dec' = [d EXCEPT !.pc = "done"]
       /\ decFut' = Rejected("DecryptFailed")
       /\ log' = log \o events \o <<"decode rejected">>
  ELSE /\ dec' = [d EXCEPT !.pc = "decrypt", !.i = Len(d.list) + 1 - i,
                           !.decrypts = Append(@, decryptKey(d.kind, d.list[Len(d.list) + 1 - i]))]
       /\ decFut' = decFut
       /\ log' = log \o events \o <<"decrypt">>

\* bmcrypto.decrypt is called with the key of candidate i (inner(i)), or
\* the trial ends with every candidate tried.
Inner(d, i, events) ==
  IF i > Len(d.list)
  THEN DecodeSettles(d, Rejected("DecryptFailed"), events)
  ELSE /\ dec' = [d EXCEPT !.pc = "decrypt", !.i = i,
                           !.decrypts = Append(@, decryptKey(d.kind, d.list[i]))]
       /\ decFut' = decFut
       /\ log' = log \o events \o <<"decrypt">>

\* bmcrypto.verify called and the decoded structure returned without
\* waiting for it.
CallVerifyUnawaited(d, r, events) ==
  DecodeSettles([d EXCEPT !.decoded = r.decoded, !.verifies = Append(@, r.verify[1])],
                Fulfilled(r.decoded[1]), events \o <<"verify">>)

\* bmcrypto.verify is called.
CallVerify(d, r, events) ==
  /\ dec' = [d EXCEPT !.pc = "verify", !.decoded = r.decoded,
                      !.verifies = Append(@, r.verify[1])]
  /\ decFut' = decFut
  /\ log' = log \o events \o <<"verify">>

\* X.decodeAsync(buf, opts) / X.decodePayloadAsync(buf, opts), up to the
\* first stage that suspends.
DecodeStart(kind, api, opts, misread) ==
  /\ dec.pc = "idle"
  /\ wire.value # <<>>
  /\ UNCHANGED <<encVars, wire, msgCall>>
  /\ LET u == unframe(api, wire.value[1])
         d == [DecIdle EXCEPT !.kind = kind, !.api = api, !.opts = <<opts>>, !.buf = u.buf]
     IN IF u.err # "" THEN DecodeSettles(d, Rejected(u.err), <<"decode">>)
        ELSE LET r == decodePayloadStart(kind, u.buf[1], opts, misread)
                 dd == [d EXCEPT !.decoded = r.decoded, !.list = r.list,
                                 !.trial = r.trial, !.blob = r.blob]
             IN CASE r.err # "" -> DecodeSettles(d, Rejected(r.err), <<"decode">>)
                  [] r.err = "" /\ r.next = "resolve" ->
                       DecodeSettles(dd, Fulfilled(r.decoded[1]), <<"decode">>)
                  [] r.err = "" /\ r.next = "verify" -> CallVerify(dd, r, <<"decode">>)
                  [] r.err = "" /\ r.next = "decrypt" -> Inner(dd, 1, <<"decode">>)

\* The then-callback on the decrypted body.
decryptedThen(d, decrypted, addr, misread) ==
  CASE d.kind = "pubkey" ->
         LET r == pubkeyBody(d.buf[1], d.decoded[1], decrypted, TRUE, misread) IN
         IF r.err # "" THEN r
         ELSE Parsed([r.decoded[1] EXCEPT !.length = BufLen(d.buf[1].payload)], r.verify)
    [] d.kind = "msg" ->
         msgBody(d.buf[1], d.decoded[1], d.buf[1].payload, decrypted, addr, misread)
    [] d.kind = "broadcast" ->
         broadcastBody(d.buf[1], d.decoded[1], d.buf[1].payload, decrypted, addr, misread)

\* A candidate's failure surfaced instead of swallowed.
decryptFailedSurfaced ==
  DecodeSettles(dec, Rejected("CryptoError"), <<"decrypt failed">>)

\* bmcrypto.decrypt is rejected: the catch-callback of the trial tries the
\* next candidate; without a trial the rejection is the call's.
decryptFailed ==
  IF dec.trial THEN Inner(dec, dec.i + 1, <<"decrypt failed">>)
  ELSE DecodeSettles(dec, Rejected("CryptoError"), <<"decrypt failed">>)

\* A failed decryption tried again with the same candidate.
DecryptDoneRetry(misread) ==
  /\ dec.pc = "decrypt"
  /\ UNCHANGED <<encVars, wire, msgCall>>
  /\ LET key == dec.decrypts[Len(dec.decrypts)]
         addr == dec.list[dec.i]
     IN IF canDecrypt(key, dec.blob)
        THEN LET d == [dec EXCEPT !.addr = <<addr>>]
                 r == decryptedThen(dec, decrypt(key, dec.blob), addr, misread)
             IN IF r.err # "" THEN DecodeSettles(d, Rejected(r.err), <<"decrypted">>)
                ELSE CallVerify(d, r, <<"decrypted">>)
        ELSE Inner(dec, dec.i, <<"decrypt failed">>)

\* bmcrypto.decrypt settles: fulfilled, the body is parsed and checked and
\* the signature check started; rejected, the next candidate is tried
\* (msg, broadcast v4) or the rejection is passed on (pubkey v4, broadcast v5).
DecryptDone(misread) ==
  /\ dec.pc = "decrypt"
  /\ UNCHANGED <<encVars, wire, msgCall>>
  /\ LET key == dec.decrypts[Len(dec.decrypts)]
         addr == dec.list[dec.i]
     IN IF canDecrypt(key, dec.blob)
        THEN LET d == [dec EXCEPT !.addr = <<addr>>]
                 r == decryptedThen(dec, decrypt(key, dec.blob), addr, misread)
             IN IF r.err # "" THEN DecodeSettles(d, Rejected(r.err), <<"decrypted">>)
                ELSE CallVerify(d, r, <<"decrypted">>)
        ELSE decryptFailed

\* The decoded structure returned whatever the signature check found.
VerifyDoneUnchecked ==
  /\ dec.pc = "verify"
  /\ UNCHANGED <<encVars, wire, msgCall>>
  /\ DecodeSettles(dec, Fulfilled(dec.decoded[1]), <<"verified">>)

\* bmcrypto.verify settles.
VerifyDone ==
  /\ dec.pc = "verify"
  /\ UNCHANGED <<encVars, wire, msgCall>>
  /\ LET a == dec.verifies[Len(dec.verifies)] IN
     IF verify(a.pub, a.data, a.sig)
     THEN DecodeSettles(dec, Fulfilled(dec.decoded[1]), <<"verified">>)
     ELSE DecodeSettles(dec, Rejected("SignatureInvalid"), <<"verify failed">>)

\* ------------------------------------------------- changed objects

\* The parts a part may be changed to: one field of it, changed.
otherKeys(key) ==
  CASE key.k = "enc" -> {encPrivateKey(a) : a \in Addrs} \ {key}
    [] key.k = "pubkeyKey" -> {getPubkeyPrivateKey(AddrD), getPubkeyPrivateKey(AddrE)} \ {key}
    [] key.k = "broadcastKey" -> {getBroadcastPrivateKey(AddrA), getBroadcastPrivateKey(AddrD)} \ {key}

RECURSIVE changedPart(_), changedBuf(_)
changedPart(p) ==
  CASE p.k = "varint" -> {VI(p.value + 1)}
    [] p.k = "keys" -> {[p EXCEPT !.sign = (@ % 3) + 1], [p EXCEPT !.enc = (@ % 3) + 1]}
    [] p.k = "ripe20" -> {RipePart(ripe(a)) : a \in {AddrA, AddrB}} \ {p}
    [] p.k = "tag32" -> {TagPart([p.tag EXCEPT ![1] = @ + 1]), TagPart(getTag(AddrD)),
                         TagPart(getTag(AddrE))} \ {p}
    [] p.k = "bytes" -> {[p EXCEPT !.text[1] = @ + 1]}
    [] p.k = "sigbytes" -> {SigPart(GarbageSig)} \ {p}
    [] p.k = "ecies" -> {[p EXCEPT !.key = key] : key \in otherKeys(p.key)}
                          \cup {[p EXCEPT !.clear = c] : c \in changedBuf(p.clear)}
\* A msg/broadcast body's sender version is changed to each other version.
changedBuf(b) ==
  UNION {{[b EXCEPT ![i] = q] : q \in changedPart(b[i])} :
           i \in {j \in DOMAIN b : j > 2 \/ ~IsBodyPrefix(b)}}
    \cup (IF IsBodyPrefix(b)
          THEN {[b EXCEPT ![1] = VI(v)] : v \in (2..5) \ {b[1].value}}
                 \cup {[b EXCEPT ![2] = VI(3 - b[2].value)]}
          ELSE {})

\* The objects that differ from o in one field of the header or of the payload.
changedObject(o) ==
  {[o EXCEPT !.expires = 3 - @]}
    \cup {[o EXCEPT !.type = t] : t \in (0..3) \ {o.type}}
    \cup {[o EXCEPT !.version = v] : v \in (1..5) \ {o.version}}
    \cup {[o EXCEPT !.stream = 3 - @]}
    \cup {[o EXCEPT !.payload = b] : b \in changedBuf(o.payload)}

\* Someone on the network changes the object before it is decoded.
Tamper ==
  /\ dec.pc = "idle"
  /\ wire.value # <<>> /\ wire.value = wire.orig
  /\ wire.value[1].k = "object"
  /\ \E o \in changedObject(wire.value[1]) : wire' = [wire EXCEPT !.value = <<o>>]
  /\ UNCHANGED <<encVars, decVars, log, msgCall>>

\* ----------------------------------------------------- specifications

DecodeApis == {"decodeAsync", "decodePayloadAsync"}

\* The caller hands the value of the encode future to a decoder, or awaits
\* and hands over the objWithNonce of the value msg/broadcast resolve to.
HandOver ==
  /\ wire.value = <<>>
  /\ encFut.state = "fulfilled"
  /\ \/ wire' = [value |-> encFut.value, orig |-> encFut.value]
     \/ /\ encFut.value[1].k = "pair"
        /\ nonceFut.state = "fulfilled"
        /\ wire' = [value |-> nonceFut.value, orig |-> nonceFut.value]
  /\ UNCHANGED <<encVars, decVars, log, msgCall>>

\* The candidates of the round trip: none, or one address.
RoundTripCandidates == {c \in Candidates : c.shape \in {"absent", "single"}}

\* The options of the round trip: of the texts, "hello" alone or under the
\* subject "Hi", the long message, and no message.
RoundTripOptsOf(kind) ==
  {o \in OptsOf(kind) :
     \/ o.encoding = IGNORE /\ o.subject = Undefined
     \/ o.encoding = SIMPLE /\ o.subject = Hi /\ o.message = Hello}

Init == InitEnc

Next ==
  \/ \E kind \in Kinds, api \in Apis : \E opts \in RoundTripOptsOf(kind) :
       EncodeStart(kind, api, opts)
  \/ SignDone
  \/ EncryptDone
  \/ \E nonce \in PowNonces : PowDone(nonce)
  \/ HandOver
  \/ \E kind \in Kinds, api \in DecodeApis, opts \in RoundTripCandidates, misread \in BOOLEAN :
       DecodeStart(kind, api, opts, misread)
  \/ \E misread \in BOOLEAN : DecryptDone(misread)
  \/ VerifyDone

Spec == Init /\ [][Next]_vars

\* The objects on the network: what the encode calls build (the msgs and
\* the broadcasts with the subject "Hi" and the message "hello"; of the msgs,
\* those from an address of each version to AddrB, whose encryption key
\* AddrC shares, and to AddrD), as the object message payload or as the
\* message.
EncodedObjects ==
  UNION {{WithNonce(finalObj(kind, opts), ZeroNonce) :
            opts \in {o \in OptsOf(kind) :
                        /\ WellFormed(kind, o) /\ o.skipPow
                        /\ kind \in {"msg", "broadcast"} =>
                             /\ o.encoding = SIMPLE /\ o.subject = Hi
                             /\ o.message = Hello
                        /\ kind = "msg" => /\ o.from[1] \in {AddrA, AddrB, AddrD}
                                           /\ o.to[1] \in {AddrB, AddrD}}} :
         kind \in Kinds}

InitDec ==
  /\ enc = EncIdle /\ encFut = Pending /\ nonceFut = Pending /\ pow = NoPow
  /\ log = <<>> /\ dec = DecIdle /\ decFut = Pending /\ msgCall = NoCall
  /\ \E o \in EncodedObjects : \E v \in {o, messageEncode("object", o)} :
       wire = [value |-> <<v>>, orig |-> <<v>>]

\* The candidates a decode call of the kind on the value is made with: all
\* of them if the call reads them (the value parses, and the type and
\* version assertions pass), none otherwise.
CandidatesOf(kind, api) ==
  LET u == unframe(api, wire.value[1]) IN
  IF /\ u.err = ""
     /\ \/ kind = "pubkey" /\ u.buf[1].type = PUBKEY /\ u.buf[1].version = 4
        \/ kind = "msg" /\ u.buf[1].type = MSG /\ u.buf[1].version = 1
        \/ kind = "broadcast" /\ u.buf[1].type = BROADCAST /\ u.buf[1].version \in {4, 5}
  THEN Candidates
  ELSE {c \in Candidates : c.shape = "absent"}

NextDec ==
  \/ Tamper
  \/ \E kind \in Kinds, api \in DecodeApis, misread \in BOOLEAN :
       \E opts \in CandidatesOf(kind, api) : DecodeStart(kind, api, opts, misread)
  \/ \E misread \in BOOLEAN : DecryptDone(misread)
  \/ VerifyDone

SpecDec == InitDec /\ [][NextDec]_vars

\* ------------------------------------------------ the candidate trial

\* A msg or a broadcast v4 with the message "hello" is on the network, as
\* the object message payload.
InitTrial ==
  /\ enc = EncIdle /\ encFut = Pending /\ nonceFut = Pending /\ pow = NoPow
  /\ log = <<>> /\ dec = DecIdle /\ decFut = Pending /\ msgCall = NoCall
  /\ \E kind \in {"msg", "broadcast"} : \E opts \in OptsOf(kind) :
       /\ WellFormed(kind, opts) /\ opts.skipPow
       /\ opts.encoding = TRIVIAL /\ opts.subject = Undefined /\ opts.message = Hello
       /\ kind = "broadcast" => opts.from[1].version < 4
       /\ kind = "msg" => opts.from[1] \in {AddrA, AddrD} /\ opts.to[1] \in {AddrB, AddrD}
       /\ LET o == WithNonce(finalObj(kind, opts), ZeroNonce) IN
          wire = [value |-> <<o>>, orig |-> <<o>>]

\* Its decoder is called with a single address or a sequence of
\* addresses, and the stages of the call complete.
NextTrial ==
  \/ \E kind \in {"msg", "broadcast"}, misread \in BOOLEAN :
       \E opts \in {c \in CandidatesOf(kind, "decodePayloadAsync") :
                      c.shape \in {"single", "array"}} :
         DecodeStart(kind, "decodePayloadAsync", opts, misread)
  \/ \E misread \in BOOLEAN : DecryptDone(misread)
  \/ VerifyDone

\* The trial with every bmcrypto.decrypt future settling in the end.
SpecTrial ==
  InitTrial /\ [][NextTrial]_vars
    /\ WF_vars(\E misread \in BOOLEAN : DecryptDone(misread))

\* ------------------------------------------------- the message codec

\* Longest text, in pieces: the marks of the SIMPLE encoding and two
\* characters, "a" and the two-octet U+00E9.
MaxPieces == 2
Pieces == {SubjectMark, BodyMark, <<97>>, <<233>>}

RECURSIVE Concat(_)
Concat(l) == IF l = <<>> THEN <<>> ELSE Head(l) \o Concat(Tail(l))

\* The strings given as opts.subject and opts.message.
Texts == {Str(Concat(l)) : l \in UNION {[1..n -> Pieces] : n \in 0..MaxPieces}}
MessageOpts ==
  [encoding : Encodings, subject : Texts \cup {Undefined}, message : Texts \cup {Undefined}]

\* encodeMessage(opts) is called; it returns the message Buffer or throws.
EncodeMessage ==
  /\ msgCall.pc = "called"
  /\ LET r == encodeMessage(msgCall.opts[1]) IN
     msgCall' = IF r.err # "" THEN [msgCall EXCEPT !.pc = "threw"]
                ELSE [msgCall EXCEPT !.pc = "encoded", !.buf = <<r.buf>>]
  /\ UNCHANGED <<encVars, decVars, log, wire>>

\* decodeMessage(message, encoding) is called on the Buffer, with the
\* encoding that was written next to it.
DecodeMessage ==
  /\ msgCall.pc = "encoded"
  /\ msgCall' = [msgCall EXCEPT !.pc = "decoded",
                   !.decoded = <<decodeMessage(msgCall.buf[1], encodingOf(msgCall.opts[1]))>>]
  /\ UNCHANGED <<encVars, decVars, log, wire>>

InitMsg ==
  /\ enc = EncIdle /\ encFut = Pending /\ nonceFut = Pending /\ pow = NoPow
  /\ log = <<>> /\ wire = NoWire /\ dec = DecIdle /\ decFut = Pending
  /\ \E o \in MessageOpts : msgCall = [NoCall EXCEPT !.pc = "called", !.opts = <<o>>]

NextMsg == EncodeMessage \/ DecodeMessage

SpecMsg == InitMsg /\ [][NextMsg]_vars

\* ------------------------------------------------- encode properties

\* The value of the octets read as a big-endian number.
RECURSIVE BigEndian(_)
BigEndian(octets) ==
  IF octets = <<>> THEN 0
  ELSE 256 * BigEndian(SubSeq(octets, 1, Len(octets) - 1)) + octets[Len(octets)]

\* prependNonce was called with the complete object of the encode call.
NonceStage == enc.pc \in {"pow", "done"}

\* C2: for each of the four kinds X, X.encodeAsync(opts) resolves to the
\* framed network message message.encode("object", p), p being the octets
\* X.encodePayloadAsync(opts) resolves to (nonce, then the object).
C2_EncodeAsyncFramed ==
  (enc.api = "encodeAsync" /\ encFut.state = "fulfilled") =>
    /\ encFut.value[1].k = "message"
    /\ encFut.value[1].command = "object"
    /\ nonceFut.state = "fulfilled"
    /\ encFut.value[1].payload = nonceFut.value[1]

\* C3: the future of X.encodePayloadAsync(opts) is fulfilled only after the
\* nonce stage has completed, its value is the nonce followed by the object
\* without nonce, and fulfilment comes after sign, encrypt and POW.
C3_PayloadAfterNonce ==
  (enc.api = "encodePayloadAsync" /\ encFut.state = "fulfilled") =>
    /\ nonceFut.state = "fulfilled"
    /\ encFut.value[1].k = "object"
    /\ encFut.value = nonceFut.value
    /\ log[Len(log)] = "encode fulfilled"
    /\ \A i \in DOMAIN log :
         log[i] \in {"sign", "signed", "encrypt", "pow", "pow done"} => i < Len(log)

\* C4: whenever the object without nonce is longer than 262,136 octets, the
\* future of the encode operation is rejected with PayloadTooLarge and the
\* POW solver is never invoked.
C4_TooLargeRejected ==
  (NonceStage /\ ObjLen(enc.obj[1]) > MaxObjectLength) =>
    /\ encFut = Rejected("PayloadTooLarge")
    /\ pow.getTarget = 0 /\ pow.doAsync = 0

\* C5: within the size bound, prependNonce with skipPow calls neither
\* POW.getTarget nor the solver and resolves to 8 zero octets followed by
\* the unchanged object; without skipPow it calls the solver once, with
\* payloadLength = len(obj) + 8, and resolves to the returned nonce written
\* big-endian in 8 octets, followed by the object.
C5_PrependNonce ==
  (NonceStage /\ ObjLen(enc.obj[1]) <= MaxObjectLength) =>
    LET obj == enc.obj[1] IN
    IF enc.opts.skipPow
    THEN /\ pow.getTarget = 0 /\ pow.doAsync = 0
         /\ nonceFut.state = "fulfilled"
         /\ nonceFut.value[1].nonce = <<0, 0, 0, 0, 0, 0, 0, 0>>
         /\ nonceFut.value[1] = WithNonce(obj, nonceFut.value[1].nonce)
    ELSE /\ pow.getTarget = 1 /\ pow.doAsync = 1
         /\ pow.payloadLength = ObjLen(obj) + 8
         /\ pow.data = <<obj>>
         /\ enc.pc = "pow" => nonceFut.state = "pending"
         /\ enc.pc = "done" =>
              /\ nonceFut.state = "fulfilled"
              /\ Len(nonceFut.value[1].nonce) = 8
              /\ BigEndian(nonceFut.value[1].nonce) = pow.result[1]
              /\ nonceFut.value[1] = WithNonce(obj, nonceFut.value[1].nonce)

\* The solver was called and returned a nonce of more than one octet.
C5_Witness ==
  /\ enc.pc = "done" /\ ~enc.opts.skipPow
  /\ pow.doAsync = 1 /\ pow.result = <<70000>>
  /\ nonceFut.state = "fulfilled"

\* ------------------------------------------------ round-trip property

\* The options C1 is about: a pubkey is encoded in the version of its
\* originator, and the object is within the size bound.
RoundTripOpts ==
  /\ enc.kind = "pubkey" => pubkeyVersion(enc.opts) = enc.opts.from[1].version
  /\ enc.kind \in {"msg", "broadcast"} =>
       /\ encodeMessage(enc.opts).err = ""
       /\ encodeMessage(enc.opts).buf.len <= MaxObjectLength

\* The decode call was given the candidate matching the encode call.
MatchingCandidate ==
  /\ dec.opts[1].shape = "single"
  /\ dec.opts[1].list = (IF enc.kind \in {"pubkey", "broadcast"} THEN enc.opts.from
                         ELSE enc.opts.to)

\* The decoded structure d holds the inputs of the encode call.
InputsDecoded(d, kind, opts) ==
  LET from == opts.from[1]
      to == opts.to[1]
      keys == /\ d.behavior = 1 /\ d.signPublicKey = from.signKey
              /\ d.encPublicKey = from.encKey
      difficulty == /\ d.nonceTrialsPerByte = getTrials(from)
                    /\ d.payloadLengthExtraBytes = getExtraBytes(from)
      sender == /\ d.senderVersion = from.version /\ d.senderStream = from.stream
                /\ keys /\ (from.version >= 3 => difficulty)
                /\ d.encoding = encodingOf(opts) /\ d.message = opts.message
                /\ (d.encoding = SIMPLE /\ opts.subject # Undefined) =>
                     d.subject = opts.subject
  IN CASE kind = "getpubkey" ->
            /\ d.type = GETPUBKEY /\ d.version = to.version /\ d.stream = to.stream
            /\ IF to.version < 4 THEN d.ripe = ripe(to) ELSE d.tag = getTag(to)
       [] kind = "pubkey" ->
            /\ d.type = PUBKEY /\ d.version = from.version
            /\ d.stream = pubkeyStream(opts) /\ keys
            /\ d.version >= 3 => difficulty
            /\ d.version = 4 => d.tag = getTag(from)
       [] kind = "msg" ->
            /\ d.type = MSG /\ d.version = 1 /\ d.stream = to.stream
            /\ sender /\ d.ripe = ripe(to)
       [] kind = "broadcast" ->
            /\ d.type = BROADCAST /\ d.version = broadcastVersion(from)
            /\ d.stream = from.stream /\ sender
            /\ d.version = 5 => d.tag = getTag(from)

\* The value X.encodeAsync resolved to was decoded by X.decodeAsync with the
\* matching candidate.
RoundTripDone ==
  /\ dec.pc = "done" /\ dec.api = "decodeAsync" /\ dec.kind = enc.kind
  /\ enc.api = "encodeAsync" /\ encFut.state = "fulfilled" /\ wire.value = encFut.value
  /\ RoundTripOpts /\ MatchingCandidate

\* C1: for every kind X, feeding the value X.encodeAsync(opts) resolves to
\* into X.decodeAsync with the matching candidate resolves to a decoded
\* structure whose fields equal the encode inputs.
C1_RoundTrip ==
  RoundTripDone =>
    /\ decFut.state = "fulfilled"
    /\ InputsDecoded(decFut.value[1], enc.kind, enc.opts)

\* --------------------------------------------------- decode properties

\* The object a started decode call parses.
Buf == dec.buf[1]
Started == dec.pc # "idle" /\ dec.buf # <<>>
Done == dec.pc = "done"
CandidateList == dec.opts[1].list
Shape == dec.opts[1].shape

\* The call decodes a pubkey v4 or a broadcast v5 that starts with a tag.
TagRouted ==
  /\ Started
  /\ \/ dec.kind = "pubkey" /\ Buf.type = PUBKEY /\ Buf.version = 4
     \/ dec.kind = "broadcast" /\ Buf.type = BROADCAST /\ Buf.version = 5
  /\ Buf.payload[1].k = "tag32"

\* The tag of the object is the tag of no candidate of version >= 4.
NoTagMatch ==
  \A i \in DOMAIN CandidateList :
    ~(CandidateList[i].version >= 4 /\ getTag(CandidateList[i]) = Buf.payload[1].tag)

\* C6: decoding a pubkey v4 or a broadcast v5 whose tag matches the tag of
\* no candidate of version >= 4 is rejected with NotInterested, and neither
\* decrypt nor verify is invoked, whatever the shape of the candidates.
C6_TagRouting ==
  (TagRouted /\ NoTagMatch) =>
    /\ Done /\ decFut = Rejected("NotInterested")
    /\ dec.decrypts = <<>> /\ dec.verifies = <<>>

\* The call is a trial: a msg decode, or a broadcast v4 decode, that got to
\* its candidates.
Trial == Started /\ dec.trial
TrialKeys == [i \in DOMAIN dec.list |-> decryptKey(dec.kind, dec.list[i])]
Succeeds(i) == canDecrypt(TrialKeys[i], dec.blob)
Successes == {i \in DOMAIN dec.list : Succeeds(i)}
FirstSuccess == CHOOSE i \in Successes : \A j \in Successes : i <= j

\* The futures a trial may end with, given the candidate it committed to
\* (none: every decryption failed).
Outcomes(committed) ==
  IF committed = <<>> THEN {Rejected("DecryptFailed")}
  ELSE UNION {LET r == decryptedThen(dec, dec.blob[1].clear, committed[1], misread) IN
              {IF r.err # "" THEN Rejected(r.err)
               ELSE IF verify(r.verify[1].pub, r.verify[1].data, r.verify[1].sig)
               THEN Fulfilled(r.decoded[1]) ELSE Rejected("SignatureInvalid")} :
              misread \in BOOLEAN}

\* C7: msg decode and broadcast v4 decode try the candidates in input order,
\* commit to the lowest-index candidate whose decryption succeeds, try none
\* after it, and end as that candidate alone decides: the candidates whose
\* decryption fails, and their order, do not change the outcome.
C7_CandidateOrder ==
  Trial =>
    /\ dec.list = (IF dec.kind = "msg" THEN CandidateList
                   ELSE IF Shape = "map" THEN SelectSeq(mapValues(mapOf(CandidateList)),
                                                        LAMBDA a : a.version < 4)
                   ELSE SelectSeq(CandidateList, LAMBDA a : a.version < 4))
    /\ dec.decrypts = SubSeq(TrialKeys, 1, Len(dec.decrypts))
    /\ \A i \in 1..(Len(dec.decrypts) - 1) : ~Succeeds(i)
    /\ dec.addr # <<>> => Successes # {} /\ dec.addr[1] = dec.list[FirstSuccess]
    /\ Done =>
         /\ Len(dec.decrypts) = (IF Successes = {} THEN Len(dec.list) ELSE FirstSuccess)
         /\ decFut \in Outcomes(IF Successes = {} THEN <<>> ELSE <<dec.list[FirstSuccess]>>)

\* A trial committed to its second candidate after the first one failed,
\* and the decode was fulfilled.
C7_Witness ==
  /\ Trial /\ Done /\ Len(dec.list) = 2 /\ Len(dec.decrypts) = 2
  /\ dec.addr = <<dec.list[2]>> /\ decFut.state = "fulfilled"

\* The call is a msg decode that got to its identities.
MsgRouted == Started /\ dec.kind = "msg" /\ Buf.type = MSG /\ Buf.version = 1

\* No candidate's decryption of the msg payload succeeds.
NoneDecrypts ==
  \A i \in DOMAIN CandidateList : ~canDecrypt(encPrivateKey(CandidateList[i]), Buf.payload)

\* C8 as stated: msg decode accepts a single address, a sequence and a
\* tag-keyed map, and whenever no candidate's decryption succeeds the future
\* is rejected with DecryptFailed and no other error kind.
C8_AllShapesDecryptFailed ==
  (MsgRouted /\ Shape \in {"single", "array", "map"} /\ NoneDecrypts) =>
    (Done => decFut = Rejected("DecryptFailed"))

\* C8, amended: for a single address or a sequence (the empty one included)
\* every candidate is tried, every failure is swallowed and the future is
\* rejected with DecryptFailed; a tag-keyed map, like absent identities,
\* is rejected with a TypeError before any decryption.
C8_SequenceDecryptFailed ==
  (MsgRouted /\ NoneDecrypts) =>
    IF Shape \in {"single", "array"}
    THEN /\ dec.decrypts = SubSeq(TrialKeys, 1, Len(dec.decrypts))
         /\ dec.verifies = <<>>
         /\ Done => /\ decFut = Rejected("DecryptFailed")
                    /\ Len(dec.decrypts) = Len(CandidateList)
    ELSE Done /\ decFut = Rejected("TypeError") /\ dec.decrypts = <<>>

\* Two identities were tried, both failed, and the decode ended in DecryptFailed.
C8_Witness ==
  /\ MsgRouted /\ Shape = "array" /\ Len(CandidateList) = 2 /\ NoneDecrypts
  /\ Done /\ Len(dec.decrypts) = 2 /\ decFut = Rejected("DecryptFailed")

\* The msg was decrypted; the ripe its cleartext holds after the keys (and
\* the difficulty, if the sender version has one).
Decrypted == MsgRouted /\ dec.addr # <<>>
Clear == dec.blob[1].clear
ClearRipe == IF msgHasPow(Clear) THEN Clear[6].ripe ELSE Clear[4].ripe
RipeDiffers == ClearRipe # ripe(dec.addr[1])
\* The cleartext parses up to the ripe: the sender version is supported and
\* the difficulty is there iff the sender version has one.
ParsesToRipe ==
  /\ Clear[1].value \in 2..4
  /\ (Clear[1].value >= 3) = msgHasPow(Clear)

\* C9 as stated: msg decode is fulfilled only if the ripe of the cleartext
\* is the ripe of the identity that decrypted it; when decryption succeeds
\* but the ripe differs the future is rejected with RipeMismatch and verify
\* is never invoked.
C9_RipeRouting ==
  (Decrypted /\ RipeDiffers) =>
    /\ Done /\ decFut = Rejected("RipeMismatch")
    /\ dec.verifies = <<>>

\* C9, amended: when decryption succeeds but the ripe differs the future is
\* rejected and verify is never invoked; the error is RipeMismatch if the
\* cleartext parses up to the ripe, and the error of the failed parse
\* otherwise.  A fulfilled msg decode has the ripe of its identity, and an
\* unchanged msg decoded with identities (a single one or a sequence) that
\* are all not the recipient ends in DecryptFailed or RipeMismatch.
C9_RipeChecked ==
  /\ (Decrypted /\ RipeDiffers) =>
       /\ Done /\ decFut.state = "rejected" /\ dec.verifies = <<>>
       /\ decFut.error \in {"RipeMismatch", "UnsupportedVersion", "BadLength"}
       /\ ParsesToRipe => decFut.error = "RipeMismatch"
       /\ Clear[1].value \notin 2..4 => decFut.error = "UnsupportedVersion"
  /\ (MsgRouted /\ decFut.state = "fulfilled") =>
       Decrypted /\ ~RipeDiffers /\ decFut.value[1].ripe = ripe(dec.addr[1])
  /\ (/\ MsgRouted /\ Done /\ wire.value = wire.orig /\ Shape \in {"single", "array"}
      /\ \A i \in DOMAIN CandidateList :
           ripe(CandidateList[i]) # Buf.payload[1].clear[IF msgHasPow(Buf.payload[1].clear)
                                                          THEN 6 ELSE 4].ripe) =>
       decFut \in {Rejected("DecryptFailed"), Rejected("RipeMismatch")}

\* An unchanged msg was decrypted by an identity that shares the recipient's
\* encryption key but not its ripe.
C9_Witness ==
  /\ Decrypted /\ RipeDiffers /\ wire.value = wire.orig
  /\ Done /\ decFut = Rejected("RipeMismatch")

\* The object the decoded value was made from, before any change.
Orig == wire.orig[1]
\* The kinds that carry a signature: pubkey v3/v4, msg, broadcast v4/v5.
SignedKind(o) ==
  \/ o.type = PUBKEY /\ o.version \in {3, 4}
  \/ o.type = MSG /\ o.version = 1
  \/ o.type = BROADCAST /\ o.version \in {4, 5}
KindOf(o) ==
  CASE o.type = GETPUBKEY -> "getpubkey" [] o.type = PUBKEY -> "pubkey"
    [] o.type = MSG -> "msg" [] o.type = BROADCAST -> "broadcast"

\* The signed region of an object of a signed kind: the header without
\* nonce, the tag if there is one, and the cleartext before sig_length.
signedRegion(o) ==
  LET last == o.payload[Len(o.payload)]
      flat == IF last.k = "ecies"
              THEN SubSeq(o.payload, 1, Len(o.payload) - 1) \o last.clear
              ELSE o.payload
  IN <<ObjHeader(o)>> \o SubSeq(flat, 1, Len(flat) - 2)

\* An object of a signed kind was changed in its signed region.
RegionChanged ==
  /\ Orig.k = "object" /\ SignedKind(Orig)
  /\ signedRegion(wire.value[1]) # signedRegion(Orig)

\* The decode call is the one for the kind of the object, made with the
\* address the object is for (msg) or from (pubkey v4, broadcast).
Intended ==
  /\ Started /\ dec.kind = KindOf(Orig)
  /\ Orig.payload[Len(Orig.payload)].k = "ecies" =>
       /\ Shape = "single"
       /\ LET a == CandidateList[1]
              blob == Orig.payload[Len(Orig.payload)]
          IN /\ decryptKey(dec.kind, a) = blob.key
             /\ dec.kind = "msg" =>
                  ripe(a) = blob.clear[IF msgHasPow(blob.clear) THEN 6 ELSE 4].ripe

\* C10 as stated: changing any bit of the signed region of an encoded
\* pubkey v3/v4, msg or broadcast v4/v5 before decoding makes the decode
\* future reject with SignatureInvalid.
C10_SignatureIntegrity ==
  (RegionChanged /\ Intended /\ Done) => decFut = Rejected("SignatureInvalid")

\* C10, amended: a change of the signed region makes the decode future
\* reject, with SignatureInvalid if the decode gets to the signature check
\* and with the error of the earlier check otherwise; and a decode future of
\* these kinds is fulfilled only after verify was invoked with the decoded
\* signPublicKey, the signed region and the parsed signature, and succeeded.
C10_SignatureChecked ==
  /\ (RegionChanged /\ Done) =>
       /\ decFut.state = "rejected"
       /\ dec.verifies # <<>> => decFut.error = "SignatureInvalid"
  /\ (Started /\ SignedKind(Buf) /\ dec.kind = KindOf(Buf) /\ decFut.state = "fulfilled") =>
       /\ Len(dec.verifies) = 1
       /\ dec.verifies[1].pub = decFut.value[1].signPublicKey
       /\ dec.verifies[1].sig = decFut.value[1].signature
       /\ dec.verifies[1].data = signedRegion(Buf)
       /\ verify(dec.verifies[1].pub, dec.verifies[1].data, dec.verifies[1].sig)
       /\ \E i \in DOMAIN log : log[i] = "verified" /\ log[Len(log)] = "decode fulfilled"

\* The expiry time of a msg was changed, the msg was decrypted by its
\* recipient, and the signature check failed.
C10_Witness ==
  /\ RegionChanged /\ Intended /\ Done /\ dec.kind = "msg"
  /\ dec.addr # <<>> /\ Len(dec.verifies) = 1
  /\ decFut = Rejected("SignatureInvalid")

\* ------------------------------------------------- message properties

\* The call encodes a msg or a broadcast with the IGNORE encoding and no
\* message.
IgnoreNoMessage ==
  /\ enc.pc # "idle" /\ enc.kind \in {"msg", "broadcast"}
  /\ enc.opts.encoding = IGNORE /\ enc.opts.message = Undefined

\* Where the encoding field is in the cleartext data of an encode call.
EncodingIndex ==
  (IF enc.opts.from[1].version >= 3 THEN 6 ELSE 4) + (IF enc.kind = "msg" THEN 1 ELSE 0)

\* C11: encoding a msg or a broadcast with opts.encoding = IGNORE and no
\* opts.message succeeds: the call does not throw, its future is not
\* rejected for the message, and the cleartext data it signs hold the
\* encoding 0 and a message of length 0.
C11_IgnoreEncoding ==
  IgnoreNoMessage =>
    /\ enc.pc # "threw"
    /\ encFut.state = "rejected" => encFut.error = "PayloadTooLarge"
    /\ enc.pc \in {"sign", "encrypt"} =>
         /\ enc.data[EncodingIndex].value = IGNORE
         /\ enc.data[EncodingIndex + 1].value = 0
         /\ enc.data[EncodingIndex + 2].len = 0

\* The pattern occurs in the string; the string starts with it.
Contains(s, pattern) ==
  \E i \in 0..(Len(s) - Len(pattern)) : SubSeq(s, i + 1, i + Len(pattern)) = pattern
StartsWith(s, pattern) ==
  Len(s) >= Len(pattern) /\ SubSeq(s, 1, Len(pattern)) = pattern

\* encodeMessage was called for the SIMPLE encoding with a subject string
\* and a message string; decodeMessage has returned.
SimpleCall ==
  /\ msgCall.pc \in {"threw", "encoded", "decoded"}
  /\ msgCall.opts[1].encoding = SIMPLE
  /\ msgCall.opts[1].subject # Undefined /\ msgCall.opts[1].message # Undefined
MessageDecoded == msgCall.pc = "decoded"
RoundTrips ==
  /\ msgCall.decoded[1].subject = msgCall.opts[1].subject
  /\ msgCall.decoded[1].message = msgCall.opts[1].message

\* C12 as stated: for every subject string s and message string m,
\* decodeMessage(encodeMessage({encoding: SIMPLE, subject: s, message: m}),
\* SIMPLE) yields subject s and message m.
C12_SimpleRoundTrip ==
  SimpleCall => /\ msgCall.pc # "threw"
                /\ MessageDecoded => RoundTrips

\* C12, amended: the round trip is exact for a subject that is not empty
\* and does not contain "\nBody:", and, for an empty subject (the body is
\* then the message alone), for a message that does not start with
\* "Subject:".  The decoder splits a body that starts with "Subject:" at
\* the first "\nBody:" after it (the subject holds no "\nBody:", and
\* "Subject:", subject, "\nBody:", message make up the body); such a body
\* without "\nBody:" is all subject, and a body without the "Subject:"
\* prefix decodes to subject "" with the whole body as message.
C12_SimpleSplit ==
  /\ (SimpleCall /\ MessageDecoded) =>
       LET subject == msgCall.opts[1].subject.chars
           message == msgCall.opts[1].message.chars
       IN /\ (subject # <<>> /\ ~Contains(subject, BodyMark)) => RoundTrips
          /\ (subject = <<>> /\ ~StartsWith(message, SubjectMark)) => RoundTrips
  /\ (MessageDecoded /\ encodingOf(msgCall.opts[1]) = SIMPLE) =>
       LET body == Utf8ToString(msgCall.buf[1].text)
           rest == SubSeq(body, 9, Len(body))
           d == msgCall.decoded[1]
       IN IF StartsWith(body, SubjectMark) /\ Contains(rest, BodyMark)
          THEN /\ ~Contains(d.subject.chars, BodyMark)
               /\ body = SubjectMark \o d.subject.chars \o BodyMark \o d.message.chars
          ELSE IF StartsWith(body, SubjectMark)
          THEN d.subject = Str(rest) /\ d.message = Str(<<>>)
          ELSE d.subject = Str(<<>>) /\ d.message = Str(body)

\* A message that itself holds "\nBody:" came back whole under its subject.
C12_Witness ==
  /\ SimpleCall /\ MessageDecoded /\ RoundTrips
  /\ msgCall.opts[1].subject.chars # <<>>
  /\ Contains(msgCall.opts[1].message.chars, BodyMark)

\* ----------------------------------------------- broadcast properties

\* The call is a broadcast decode that got to its subscriptions; it has
\* decrypted the object.
BroadcastRouted ==
  Started /\ dec.kind = "broadcast" /\ Buf.type = BROADCAST /\ Buf.version \in {4, 5}
BroadcastDecrypted == BroadcastRouted /\ dec.addr # <<>>

\* The Address rebuilt from the sender version, the sender stream and the
\* two keys of the cleartext, and whether it agrees with the subscription
\* that decrypted (v4: the ripe) or with the object (v5: the tag).
Sender == NewAddress(Clear[1].value, Clear[2].value, Clear[3].sign, Clear[3].enc)
KeysAgree ==
  IF Buf.version = 4 THEN ripe(Sender) = ripe(dec.addr[1])
  ELSE getTag(Sender) = Buf.payload[1].tag
SenderVersionOk == IF Buf.version = 4 THEN Clear[1].value \in 2..3 ELSE Clear[1].value = 4
SenderStreamOk == Clear[2].value = Buf.stream

\* C13 as stated: a broadcast decode is fulfilled only if the Address
\* rebuilt from the cleartext has the ripe of the subscription that
\* decrypted (v4) or the tag of objectPayload (v5); otherwise the future is
\* rejected with KeyMismatch before verify is invoked.
C13_CrossCheck ==
  /\ (BroadcastRouted /\ decFut.state = "fulfilled") => BroadcastDecrypted /\ KeysAgree
  /\ (BroadcastDecrypted /\ ~KeysAgree) =>
       /\ Done /\ decFut = Rejected("KeyMismatch")
       /\ dec.verifies = <<>>

\* C13, amended: a broadcast decode is fulfilled only if the rebuilt
\* Address agrees; otherwise the future is rejected before verify is
\* invoked, with KeyMismatch if the sender version and the sender stream
\* pass their checks, and with UnsupportedVersion or StreamMismatch, in
\* this order, if they do not.
C13_CrossChecked ==
  /\ (BroadcastRouted /\ decFut.state = "fulfilled") => BroadcastDecrypted /\ KeysAgree
  /\ (BroadcastDecrypted /\ ~KeysAgree) =>
       /\ Done /\ decFut.state = "rejected" /\ dec.verifies = <<>>
       /\ decFut.error = (IF ~SenderVersionOk THEN "UnsupportedVersion"
                          ELSE IF ~SenderStreamOk THEN "StreamMismatch"
                          ELSE "KeyMismatch")

\* A broadcast v4 was decrypted by a subscription whose ripe is not the
\* ripe of the keys inside, and the decode ended in KeyMismatch.
C13_Witness ==
  /\ BroadcastDecrypted /\ Buf.version = 4 /\ ~KeysAgree
  /\ SenderVersionOk /\ SenderStreamOk
  /\ Done /\ decFut = Rejected("KeyMismatch")

\* ----------------------------------------------- getpubkey properties

GetpubkeyCall == Started /\ dec.kind = "getpubkey"

\* C15: getpubkey decode is fulfilled only if the type is GETPUBKEY, the
\* version is 2, 3 or 4 and objectPayload is exactly 20 octets (returned as
\* ripe, no tag; version 2 or 3) or exactly 32 octets (returned as tag, no
\* ripe; version 4); it rejects a wrong type with WrongType, else a version
\* outside the range with UnsupportedVersion, else any other payload length
\* with BadLength; it neither decrypts nor verifies.
C15_GetpubkeyDecode ==
  GetpubkeyCall =>
    /\ Done /\ dec.decrypts = <<>> /\ dec.verifies = <<>>
    /\ IF Buf.type # GETPUBKEY THEN decFut = Rejected("WrongType")
       ELSE IF Buf.version \notin 2..4 THEN decFut = Rejected("UnsupportedVersion")
       ELSE IF BufLen(Buf.payload) # (IF Buf.version = 4 THEN 32 ELSE 20)
       THEN decFut = Rejected("BadLength")
       ELSE /\ decFut.state = "fulfilled"
            /\ LET d == decFut.value[1] IN
               /\ d.type = GETPUBKEY /\ d.version = Buf.version /\ d.stream = Buf.stream
               /\ IF Buf.version = 4
                  THEN d.tag = Buf.payload[1].tag /\ "ripe" \notin DOMAIN d
                  ELSE d.ripe = Buf.payload[1].ripe /\ "tag" \notin DOMAIN d

\* A getpubkey whose version was changed from 4 to 3 holds 32 octets where
\* a ripe is due, and was rejected with BadLength.
C15_Witness ==
  /\ GetpubkeyCall /\ Buf.type = GETPUBKEY /\ Buf.version = 3
  /\ BufLen(Buf.payload) = 32 /\ decFut = Rejected("BadLength")

\* -------------------------------------------------- pubkey properties

\* The encode call built a pubkey v4 and handed it to prependNonce.
PubkeyV4Encoded == NonceStage /\ enc.kind = "pubkey" /\ enc.obj[1].version = 4

\* The pubkey decoder was called on the object with the address a as
\* opts.needed.
NeededIs(a) ==
  Started /\ dec.kind = "pubkey" /\ Shape = "single" /\ CandidateList = <<a>>

\* C14 as stated: in every pubkey v4 encoded with opts.from and opts.to,
\* the first 32 octets of objectPayload are the tag of the recipient
\* (opts.to) and the remainder is the ECIES blob encrypted to the public key
\* derived from that tag, so that a decoder whose opts.needed holds the
\* recipient address finds it by tag and can decrypt.
C14_RecipientTag ==
  (PubkeyV4Encoded /\ enc.opts.to # <<>>) =>
    LET payload == enc.obj[1].payload
        to == enc.opts.to[1]
    IN /\ Len(payload) = 2
       /\ payload[1] = TagPart(getTag(to))
       /\ payload[2].k = "ecies" /\ payload[2].key = getPubkeyPublicKey(to)
       /\ (NeededIs(to) /\ Done) => decFut.state = "fulfilled"

\* C14, amended: the first 32 octets are the tag of the originator
\* (opts.from), whose keys the pubkey publishes, and the remainder is the
\* ECIES blob encrypted to the public key derived from that tag; a decoder
\* whose opts.needed holds the originator address, of version >= 4, finds
\* it by tag, decrypts with its key and is fulfilled with its keys.
C14_OriginatorTag ==
  PubkeyV4Encoded =>
    LET payload == enc.obj[1].payload
        from == enc.opts.from[1]
    IN /\ Len(payload) = 2
       /\ payload[1] = TagPart(getTag(from)) /\ PartLen(payload[1]) = 32
       /\ payload[2].k = "ecies" /\ payload[2].key = getPubkeyPublicKey(from)
       /\ payload[2].key.tag = payload[1].tag
       /\ (NeededIs(from) /\ from.version >= 4) =>
            /\ dec.list = <<from>>
            /\ dec.decrypts = <<getPubkeyPrivateKey(from)>>
            /\ dec.pc # "decrypt" => dec.addr = <<from>>
            /\ Done => /\ decFut.state = "fulfilled"
                       /\ decFut.value[1].tag = getTag(from)
                       /\ decFut.value[1].signPublicKey = from.signKey
                       /\ decFut.value[1].encPublicKey = from.encKey

\* A pubkey v4 of one address, encoded for another as its receiver, was
\* decoded by one who needed the keys of the first.
C14_Witness ==
  /\ PubkeyV4Encoded /\ enc.opts.to # <<>> /\ enc.opts.to # enc.opts.from
  /\ NeededIs(enc.opts.from[1]) /\ Done /\ decFut.state = "fulfilled"

\* ------------------------------------------- signed-region properties

\* verify was called in the decode of the object the encode call built, by
\* the decoder of its kind.
VerifyCalled == Started /\ dec.kind = enc.kind /\ dec.verifies # <<>>

\* The number of octets from expiresTime up to objectPayload, and the
\* number of octets of the whole object header, from the nonce on.
OctetsFromExpires(buf) == 8 + 4 + VarIntLen(buf.version) + VarIntLen(buf.stream)

OctetsFromNonce(buf) == NonceLength + OctetsFromExpires(buf)

TrialCall == dec.pc # "idle" /\ dec.kind \in {"msg", "broadcast"}

\* The number of the events ev among the first n of the call.
Count(ev, n) == Cardinality({i \in 1..n : log[i] = ev})

\* The decrypt and verify calls started and not completed after n events.
DecryptsInFlight(n) ==
  Count("decrypt", n) - Count("decrypt failed", n) - Count("decrypted", n)

VerifiesInFlight(n) ==
  Count("verify", n) - Count("verified", n) - Count("verify failed", n)

Settlements == {"decode fulfilled", "decode rejected"}

\* C17: in a msg or broadcast decode call the stages run in the order
\* parse, decrypt, verify: at most one decrypt is in flight, an attempt
\* starts only after the parse or after the attempt before it has failed,
\* verify starts only after a decrypt succeeded and the cleartext was
\* parsed, and the future settles only when no stage is in flight, being
\* pending as long as one is.
C17_StageOrder ==
  TrialCall =>
    /\ log # <<>> /\ log[1] = "decode"
    /\ \A n \in 1..Len(log) :
         /\ DecryptsInFlight(n) \in 0..1 /\ VerifiesInFlight(n) \in 0..1
         /\ DecryptsInFlight(n) + VerifiesInFlight(n) <= 1
         /\ log[n] = "decode" => n = 1
         /\ log[n] = "decrypt" => n > 1 /\ log[n - 1] \in {"decode", "decrypt failed"}
         /\ log[n] = "verify" => n > 1 /\ log[n - 1] = "decrypted"
         /\ log[n] \in Settlements =>
              /\ n = Len(log)
              /\ DecryptsInFlight(n) = 0 /\ VerifiesInFlight(n) = 0
    /\ Count("decrypt", Len(log)) = Len(dec.decrypts)
    /\ Count("verify", Len(log)) = Len(dec.verifies)
    /\ decFut.state # "pending" <=> log[Len(log)] \in Settlements
    /\ decFut.state = "pending" <=>
         DecryptsInFlight(Len(log)) + VerifiesInFlight(Len(log)) = 1
    /\ dec.verifies # <<>> =>
         /\ dec.addr # <<>>
         /\ dec.verifies[1].pub = dec.decoded[1].signPublicKey

\* A msg decode whose first attempt failed and whose second succeeded ran
\* through the signature check to its end.
C17_Witness ==
  /\ TrialCall /\ dec.kind = "msg"
  /\ log = <<"decode", "decrypt", "decrypt failed", "decrypt", "decrypted",
             "verify", "verified", "decode fulfilled">>

\* ------------------------------------------- subscription properties

\* A broadcast v4 is decoded with subscriptions given (an address, a
\* sequence or a keyed map).
BroadcastV4Call ==
  /\ Started /\ dec.kind = "broadcast" /\ Buf.type = BROADCAST /\ Buf.version = 4
  /\ Shape # "absent"

\* The subscriptions supplied, in input order: for a keyed map its values
\* in the order of its keys.
Supplied ==
  IF Shape = "map" THEN mapValues(mapOf(CandidateList)) ELSE CandidateList

RECURSIVE Below4(_)
Below4(l) ==
  IF l = <<>> THEN <<>>
  ELSE IF l[1].version < 4 THEN <<l[1]>> \o Below4(Tail(l)) ELSE Below4(Tail(l))

\* C18: broadcast v4 decode attempts decryption with the broadcast
\* private key of the subscriptions of version < 4, in input order, up to
\* the first that succeeds or through all of them, and with no
\* subscription of version >= 4, for each of the three shapes; with no
\* subscription of version < 4 it is rejected with DecryptFailed without
\* any decrypt.
C18_V4Subscriptions ==
  BroadcastV4Call =>
    LET keys == [i \in DOMAIN Below4(Supplied) |->
                   getBroadcastPrivateKey(Below4(Supplied)[i])]
        n == Len(dec.decrypts)
    IN /\ n <= Len(keys) /\ dec.decrypts = SubSeq(keys, 1, n)
       /\ keys # <<>> => n >= 1
       /\ \A i \in 1..n : \A j \in DOMAIN Supplied :
            Supplied[j].version >= 4 =>
              dec.decrypts[i] # getBroadcastPrivateKey(Supplied[j])
       /\ \A i \in 1..(n - 1) : ~canDecrypt(dec.decrypts[i], dec.blob)
       /\ (Done /\ decFut = Rejected("DecryptFailed")) => n = Len(keys)
       /\ (Done /\ n < Len(keys)) => canDecrypt(dec.decrypts[n], dec.blob)
       /\ keys = <<>> =>
            /\ Done /\ decFut = Rejected("DecryptFailed")
            /\ dec.decrypts = <<>> /\ dec.verifies = <<>>

\* A broadcast v4 was decoded with two subscriptions, the first of
\* version 4: the key of the second alone was tried, and decrypted it.
C18_Witness ==
  /\ BroadcastV4Call /\ Done /\ decFut.state = "fulfilled"
  /\ Len(Supplied) = 2 /\ Supplied[1].version >= 4
  /\ dec.decrypts = <<getBroadcastPrivateKey(Supplied[2])>>

\* ------------------------------------------- findAddrByTag properties

\* The addresses of version >= 4 among the candidates whose tag is the
\* requested one: their places in the candidates.
TagMatches ==
  {i \in DOMAIN CandidateList :
     CandidateList[i].version >= 4 /\ getTag(CandidateList[i]) = tagOf(Buf.payload)}

\* C19: findAddrByTag, for a single address, a sequence, a tag-keyed map
\* and absent addrs, returns an address only if its version is >= 4 and
\* its tag is the requested tag, returns the first such address of a
\* sequence, and returns nothing when there is none.
C19_FindAddrByTag ==
  TagRouted =>
    LET found == findAddrByTag(dec.opts[1], tagOf(Buf.payload)) IN
    /\ dec.list = found
    /\ found # <<>> =>
         /\ found[1].version >= 4
         /\ getTag(found[1]) = tagOf(Buf.payload)
         /\ Shape = "array" =>
              found[1] = CandidateList[CHOOSE i \in TagMatches : \A j \in TagMatches : i <= j]
    /\ TagMatches = {} => found = <<>>
    /\ (TagMatches # {} /\ Shape # "map") => found # <<>>

\* ----------------------------------------- broadcast version properties

\* The object as the encoder produced it, out of its message if framed.
OrigObj == IF Orig.k = "message" THEN Orig.payload ELSE Orig

\* The cleartext the encoder encrypted into it.
OrigClear == OrigObj.payload[Len(OrigObj.payload)].clear

\* C20: every fulfilled broadcast decode has object version 4 and sender
\* version 2 or 3, or object version 5 and sender version 4, and a sender
\* stream equal to the stream of the object header; the encoder chooses
\* version 5 exactly for a sender of version >= 4 and version 4 otherwise,
\* and writes the sender's stream to both, so that no object it produced
\* fails these checks.
C20_BroadcastVersions ==
  /\ (BroadcastRouted /\ Done /\ decFut.state = "fulfilled") =>
       LET d == decFut.value[1] IN
       /\ \/ d.version = 4 /\ d.senderVersion \in 2..3
          \/ d.version = 5 /\ d.senderVersion = 4
       /\ d.senderStream = d.stream
       /\ d.version = Buf.version /\ d.stream = Buf.stream
       /\ d.senderVersion = Clear[1].value /\ d.senderStream = Clear[2].value
  /\ OrigObj.type = BROADCAST =>
       /\ OrigObj.version = IF OrigClear[1].value >= 4 THEN 5 ELSE 4
       /\ OrigClear[1].value \in 2..4
       /\ OrigClear[2].value = OrigObj.stream
  /\ (BroadcastRouted /\ wire.value = wire.orig /\ Done) =>
       decFut.error \notin {"UnsupportedVersion", "StreamMismatch"}

\* A broadcast v5, unchanged, was decoded with the sender's address as the
\* subscription: sender version 4.
C20_Witness ==
  /\ BroadcastRouted /\ wire.value = wire.orig
  /\ Done /\ decFut.state = "fulfilled"
  /\ decFut.value[1].version = 5 /\ decFut.value[1].senderVersion = 4

\* --------------------------------------------------- frame properties

\* The properties the encoders assign to their options.
AssignedKeys == {"type", "version", "stream", "objectPayload", "payloadLength"}

\* C21: no encode or decode operation changes its inputs: after an
\* encode call, fulfilled, rejected or still in progress, the caller's opts
\* object has the keys and values it was called with (type, version, stream
\* and objectPayload are assigned to the copy of X.encodePayloadAsync,
\* payloadLength to the copy of prependNonce), and after a decode call the
\* input buffer holds the octets it was called with.
C21_InputsUnchanged ==
  /\ enc.pc # "idle" =>
       /\ enc.mem.caller = enc.opts
       /\ DOMAIN enc.mem.caller \cap AssignedKeys = {}
       /\ enc.mem.ref # "caller"
       /\ {"type", "version", "stream"} \subseteq DOMAIN enc.mem.own
       /\ enc.obj # <<>> => "objectPayload" \in DOMAIN enc.mem.own
       /\ "payloadLength" \notin DOMAIN enc.mem.own
       /\ \A f \in DOMAIN enc.opts : enc.mem.own[f] = enc.opts[f]
       /\ pow.doAsync > 0 =>
            /\ enc.mem.nonce.payloadLength = pow.payloadLength
            /\ \A f \in DOMAIN enc.mem.own : enc.mem.nonce[f] = enc.mem.own[f]
  /\ dec.pc # "idle" =>
       /\ wire.value = wire.orig
       /\ wire.value \in {encFut.value, nonceFut.value}
       /\ Started => unframe(dec.api, wire.value[1]).buf = dec.buf

\* A msg was encoded with a proof of work, its payloadLength assigned to
\* the copy of prependNonce, and decoded to the end.
C21_Witness ==
  /\ enc.kind = "msg" /\ enc.pc = "done" /\ pow.doAsync > 0
  /\ enc.mem.nonce.payloadLength = pow.payloadLength
  /\ Done /\ decFut.state = "fulfilled"

\* --------------------------------------------- termination properties

\* The trial waits for a bmcrypto.decrypt future; its own future is settled.
TrialPending == Trial /\ dec.pc = "decrypt"
TrialSettled == Trial /\ dec.pc # "decrypt"

\* The decrypt calls of a trial: at most one per candidate, the i-th with
\* the key of the i-th candidate; the trial is fulfilled with the first
\* candidate that succeeds and rejected after the last has failed.
TrialBounded ==
  Trial =>
    /\ Len(dec.decrypts) <= Len(dec.list)
    /\ \A i \in DOMAIN dec.decrypts : dec.decrypts[i] = TrialKeys[i]
    /\ \A i \in 1..(Len(dec.decrypts) - 1) : ~Succeeds(i)
    /\ TrialPending => dec.i = Len(dec.decrypts)
    /\ (TrialSettled /\ dec.addr # <<>>) =>
         /\ Succeeds(Len(dec.decrypts))
         /\ dec.addr = <<dec.list[Len(dec.decrypts)]>>
    /\ (TrialSettled /\ dec.addr = <<>>) =>
         /\ Len(dec.decrypts) = Len(dec.list) /\ Successes = {}
         /\ Done /\ decFut = Rejected("DecryptFailed")

\* C22: a trial over n candidates makes at most n decrypt calls, at most
\* one per candidate, and, every bmcrypto.decrypt future settling in the
\* end, its future settles: fulfilled with the first success or rejected
\* after the n-th failure.
C22_TrialTerminates == []TrialBounded /\ (TrialPending ~> TrialSettled)

\* Two candidates were tried and failed, and the trial was rejected.
C22_Witness ==
  /\ TrialSettled /\ Len(dec.list) = 2 /\ Len(dec.decrypts) = 2
  /\ decFut = Rejected("DecryptFailed")

====
